---- MODULE Spec2Model ----
(***************************************************************************)
(* A model of the monkey interpreter: the lexer (src/lexer/lexer.go), the  *)
(* Pratt parser (src/parser/parser.go), the environments                   *)
(* (src/object/environment.go) and the tree-walking evaluator              *)
(* (src/evaluator/tree_walker.go), driven by the REPL loop.                *)
(*                                                                         *)
(* Source text is a sequence of one-character strings (ASCII only, so the  *)
(* width utf8.DecodeRuneInString returns is always 1).  Positions are      *)
(* 0-based as in the Go code; input[i] of the code is input[i + 1] here.   *)
(***************************************************************************)
EXTENDS Integers, Sequences, FiniteSets, TLC

VARIABLES
    lex,        \* the Lexer under test: input, position, readPosition, ch
    emitted,    \* the tokens NextToken has returned so far, in order
    envs,       \* Environment objects by address: store and outer (0 = nil)
    last,       \* the last Environment call: op, env, name, value, obj, ok, before
    pc,         \* where the REPL loop stands
    lines,      \* the number of lines the REPL has scanned
    line,       \* the line scanned last
    program,    \* the Program ParseProgram returned for it
    perr,       \* the error ParseProgram returned for it
    evaluated,  \* what Eval returned for the program: obj, err, panic
    nextAddr,   \* the next free object address
    trace,      \* what the last evaluation did, in order
    vm,         \* the VM: constants, instructions, ip, stack, sp, err, state
    sym,        \* the SymbolTable objects by address, and the last call on them
    arr,        \* the slices and Array objects the builtin push works on
    code        \* an instruction: its opcode and operands, encoded and decoded

lexVars == <<lex, emitted>>
envVars == <<envs, last>>
replVars == <<pc, lines, line, program, perr, evaluated, nextAddr, trace>>
machineVars == <<vm, sym, arr, code>>

(***************************************************************************)
(* Bounds                                                                  *)
(***************************************************************************)
MaxTokens == 4      \* NextToken calls made on one lexer
MaxEnvs == 3        \* Environment objects created
MaxLines == 1       \* lines the REPL scans
MaxBangs == 2       \* prefix operators in front of one operand
MaxExcess == 1      \* pushes a VM program makes beyond STACKSIZE
MaxTables == 4      \* SymbolTable objects created
MaxDefinitions == 1 \* Define calls on all SymbolTables together
MaxArrays == 4      \* Array objects created
MaxElements == 3    \* elements of an array literal

(***************************************************************************)
(* Characters                                                              *)
(***************************************************************************)
NUL == "NUL"        \* the rune 0 that readChar stores at end of input
QUOTE == "\""

LowerCase ==
    {"a", "b", "c", "d", "e", "f", "g", "h", "i", "j", "k", "l", "m",
     "n", "o", "p", "q", "r", "s", "t", "u", "v", "w", "x", "y", "z"}

UpperCase ==
    {"A", "B", "C", "D", "E", "F", "G", "H", "I", "J", "K", "L", "M",
     "N", "O", "P", "Q", "R", "S", "T", "U", "V", "W", "X", "Y", "Z"}

Digits == {"0", "1", "2", "3", "4", "5", "6", "7", "8", "9"}

isLetter(r) == r \in LowerCase \/ r = "_" \/ r = "?" \/ r = "!" \/ r \in UpperCase

isDigit(ch) == ch \in Digits

isWhitespace(ch) == ch = " " \/ ch = "\t" \/ ch = "\n" \/ ch = "\r"

(***************************************************************************)
(* Tokens                                                                  *)
(***************************************************************************)
NewToken(type, literal) == [Type |-> type, Literal |-> literal]

singleCharMatch ==
    [c \in {"=", ";", "(", ")", ",", "+", "-", "*", "/", "{", "}", "^",
            "|", "&", "%", "<", ">", "[", "]", ":"} |->
        CASE c = "=" -> "ASSIGN"
          [] c = ";" -> "SEMICOLON"
          [] c = "(" -> "LPAREN"
          [] c = ")" -> "RPAREN"
          [] c = "," -> "COMMA"
          [] c = "+" -> "PLUS"
          [] c = "-" -> "MINUS"
          [] c = "*" -> "ASTERISK"
          [] c = "/" -> "SLASH"
          [] c = "{" -> "LBRACE"
          [] c = "}" -> "RBRACE"
          [] c = "^" -> "CARET"
          [] c = "|" -> "PIPE"
          [] c = "&" -> "AMPERSAND"
          [] c = "%" -> "PERCENT"
          [] c = "<" -> "LANG"
          [] c = ">" -> "RANG"
          [] c = "[" -> "LBRACKET"
          [] c = "]" -> "RBRACKET"
          [] c = ":" -> "COLON"]

doubleCharMatch ==
    [p \in {<<"=", "=">>, <<"!", "=">>, <<">", "=">>, <<"<", "=">>,
            <<"^", "=">>, <<"|", "=">>, <<"&", "=">>, <<"-", "=">>,
            <<"*", "=">>, <<"/", "=">>, <<"%", "=">>, <<"&", "&">>,
            <<"|", "|">>, <<"<", "<">>, <<">", ">">>} |->
        CASE p = <<"=", "=">> -> "EQ"
          [] p = <<"!", "=">> -> "NEQ"
          [] p = <<">", "=">> -> "GEQ"
          [] p = <<"<", "=">> -> "LEQ"
          [] p = <<"^", "=">> -> "XOR_EQ"
          [] p = <<"|", "=">> -> "OR_EQ"
          [] p = <<"&", "=">> -> "AND_EQ"
          [] p = <<"-", "=">> -> "MIN_EQ"
          [] p = <<"*", "=">> -> "MUL_EQ"
          [] p = <<"/", "=">> -> "DIV_EQ"
          [] p = <<"%", "=">> -> "PERC_EQ"
          [] p = <<"&", "&">> -> "AND"
          [] p = <<"|", "|">> -> "OR"
          [] p = <<"<", "<">> -> "SHOVL"
          [] p = <<">", ">">> -> "SHOVR"]

keywordMatch ==
    [w \in {<<"f", "n">>, <<"l", "e", "t">>, <<"i", "f">>,
            <<"e", "l", "s", "e">>, <<"r", "e", "t", "u", "r", "n">>,
            <<"t", "r", "u", "e">>, <<"f", "a", "l", "s", "e">>, <<"!">>} |->
        CASE w = <<"f", "n">> -> "FUNCTION"
          [] w = <<"l", "e", "t">> -> "LET"
          [] w = <<"i", "f">> -> "IF"
          [] w = <<"e", "l", "s", "e">> -> "ELSE"
          [] w = <<"r", "e", "t", "u", "r", "n">> -> "RETURN"
          [] w = <<"t", "r", "u", "e">> -> "TRUE"
          [] w = <<"f", "a", "l", "s", "e">> -> "FALSE"
          [] w = <<"!">> -> "BANG"]

(***************************************************************************)
(* Lexer                                                                   *)
(***************************************************************************)
readChar(l) ==
    [l EXCEPT !.ch = IF l.readPosition >= Len(l.input)
                     THEN NUL
                     ELSE l.input[l.readPosition + 1],
              !.position = l.readPosition,
              !.readPosition = l.readPosition + 1]

NewLexer(input) ==
    readChar([input |-> input, position |-> 0, readPosition |-> 0, ch |-> NUL])

peekChar(l) ==
    IF l.readPosition >= Len(l.input) THEN NUL ELSE l.input[l.readPosition + 1]

RECURSIVE eatWhitespace(_)
eatWhitespace(l) ==
    IF isWhitespace(l.ch) THEN eatWhitespace(readChar(l)) ELSE l

\* the loops of readNumber, readIdentifier and readString: the lexer after
\* the loop; the callers slice input[pos:l.position]
RECURSIVE skipDigits(_)
skipDigits(l) == IF isDigit(l.ch) THEN skipDigits(readChar(l)) ELSE l

RECURSIVE skipLetters(_)
skipLetters(l) == IF isLetter(l.ch) THEN skipLetters(readChar(l)) ELSE l

RECURSIVE skipString(_)
skipString(l) ==
    LET n == readChar(l)
    IN  IF n.ch = QUOTE \/ n.ch = NUL THEN n ELSE skipString(n)

\* each reader returns the text read, input[from:l.position] of the code, and
\* the lexer after it
sliceTo(l, from, n) == [text |-> SubSeq(l.input, from, n.position), l |-> n]

readNumber(l) == sliceTo(l, l.position + 1, skipDigits(l))

readIdentifier(l) == sliceTo(l, l.position + 1, skipLetters(l))

readString(l) == sliceTo(l, l.position + 2, skipString(l))

\* handleIdentifier once readIdentifier has returned r
handleIdentifier_lit(r) ==
    IF r.text \in DOMAIN keywordMatch
    THEN [tok |-> NewToken(keywordMatch[r.text], r.text), l |-> r.l]
    ELSE [tok |-> NewToken("IDENT", r.text), l |-> r.l]

handleIdentifier(l) == handleIdentifier_lit(readIdentifier(l))

\* the INT and the STRING token for the text r a reader returned
NextToken_int(r) == [tok |-> NewToken("INT", r.text), l |-> r.l]

NextToken_string(r) == [tok |-> NewToken("STRING", r.text), l |-> readChar(r.l)]

\* NextToken after eatWhitespace
NextToken_switch(l) ==
    IF l.ch = NUL
    THEN [tok |-> NewToken("EOF", <<>>), l |-> l]
    ELSE IF <<l.ch, peekChar(l)>> \in DOMAIN doubleCharMatch
    THEN [tok |-> NewToken(doubleCharMatch[<<l.ch, peekChar(l)>>],
                           <<l.ch, peekChar(l)>>),
          l |-> readChar(readChar(l))]
    ELSE IF isLetter(l.ch)
    THEN handleIdentifier(l)
    ELSE IF isDigit(l.ch)
    THEN NextToken_int(readNumber(l))
    ELSE IF l.ch \in DOMAIN singleCharMatch
    THEN [tok |-> NewToken(singleCharMatch[l.ch], <<l.ch>>), l |-> readChar(l)]
    ELSE IF l.ch = QUOTE
    THEN NextToken_string(readString(l))
    ELSE [tok |-> NewToken("ILLEGAL", <<l.ch>>), l |-> l]

\* NextToken returns the token and the lexer after the call
NextToken(l0) == NextToken_switch(eatWhitespace(l0))

(***************************************************************************)
(* Text of messages                                                        *)
(***************************************************************************)
nilErr == "<nil>"   \* Go's nil error

\* a sequence of characters as one string
RECURSIVE Str(_)
Str(cs) == IF cs = <<>> THEN "" ELSE Head(cs) \o Str(Tail(cs))

createParseError(msg) == msg

(***************************************************************************)
(* AST nodes                                                               *)
(***************************************************************************)
NilNode == [Kind |-> "nil"]

Program(stmts) == [Kind |-> "Program", Statements |-> stmts]

LetStatement(tok, name, value) ==
    [Kind |-> "LetStatement", Token |-> tok, Name |-> name, Value |-> value]

ReturnStatement(tok, value) ==
    [Kind |-> "ReturnStatement", Token |-> tok, ReturnValue |-> value]

ExpressionStatement(tok, exp) ==
    [Kind |-> "ExpressionStatement", Token |-> tok, Expression |-> exp]

BlockStatement(tok, stmts) ==
    [Kind |-> "BlockStatement", Token |-> tok, Statements |-> stmts]

Identifier(tok) == [Kind |-> "Identifier", Token |-> tok, Value |-> tok.Literal]

IntegerLiteral(tok, value) ==
    [Kind |-> "IntegerLiteral", Token |-> tok, Value |-> value]

Boolean(tok, value) == [Kind |-> "Boolean", Token |-> tok, Value |-> value]

StringLiteral(tok) ==
    [Kind |-> "StringLiteral", Token |-> tok, Value |-> tok.Literal]

PrefixExpression(tok, right) ==
    [Kind |-> "PrefixExpression", Token |-> tok, Operator |-> tok.Literal,
     Right |-> right]

InfixExpression(tok, left, right) ==
    [Kind |-> "InfixExpression", Token |-> tok, Operator |-> tok.Literal,
     Left |-> left, Right |-> right]

IfExpression(tok, cond, cons, alt) ==
    [Kind |-> "IfExpression", Token |-> tok, Condition |-> cond,
     Consequence |-> cons, Alternative |-> alt]

FunctionLiteral(tok, params, body) ==
    [Kind |-> "FunctionLiteral", Token |-> tok, Parameters |-> params,
     Body |-> body]

CallExpression(tok, function, args) ==
    [Kind |-> "CallExpression", Token |-> tok, Function |-> function,
     Arguments |-> args]

ArrayLiteral(tok, elements) ==
    [Kind |-> "ArrayLiteral", Token |-> tok, Elements |-> elements]

IndexExpression(tok, left, index) ==
    [Kind |-> "IndexExpression", Token |-> tok, Left |-> left, Index |-> index]

(***************************************************************************)
(* Parser.  A parser p is the record of its lexer l, curToken and          *)
(* peekToken; every parse function returns the node (or list) it built,    *)
(* its error and the parser after it.                                      *)
(***************************************************************************)
LOWEST == 1
EQUALS == 2
LESSGREATER == 3
SUM == 4
PRODUCT == 5
PREFIX == 6
SPECIAL == 7
CALL == 8
INDEX == 9

precedences ==
    [t \in {"EQ", "NEQ", "LANG", "RANG", "PLUS", "MINUS", "SLASH", "ASTERISK",
            "PERCENT", "PIPE", "AMPERSAND", "CARET", "SHOVL", "SHOVR",
            "LPAREN", "LBRACKET"} |->
        CASE t \in {"EQ", "NEQ"} -> EQUALS
          [] t \in {"LANG", "RANG"} -> LESSGREATER
          [] t \in {"PLUS", "MINUS"} -> SUM
          [] t \in {"SLASH", "ASTERISK", "PERCENT"} -> PRODUCT
          [] t \in {"PIPE", "AMPERSAND", "CARET", "SHOVL", "SHOVR"} -> SPECIAL
          [] t = "LPAREN" -> CALL
          [] t = "LBRACKET" -> INDEX]

\* the token kinds New registers a prefix / an infix parse function for
prefixParseFns ==
    {"IDENT", "INT", "BANG", "MINUS", "TRUE", "FALSE", "LPAREN", "IF",
     "FUNCTION", "STRING", "LBRACKET"}

infixParseFns == DOMAIN precedences

POk(node, p) == [node |-> node, err |-> nilErr, p |-> p]
PErr(err, p) == [node |-> NilNode, err |-> err, p |-> p]

\* A Go function whose body is a sequence of calls is written as a chain of
\* operators: f_x(..., x) is the rest of f from the point where the call
\* that yields x has returned.
nextToken_tok(p, r) == [l |-> r.l, curToken |-> p.peekToken, peekToken |-> r.tok]

nextToken(p) == nextToken_tok(p, NextToken(p.l))

ZeroToken == NewToken("", <<>>)

NewParser(l) ==
    nextToken(nextToken([l |-> l, curToken |-> ZeroToken, peekToken |-> ZeroToken]))

peekTokenIs(p, t) == p.peekToken.Type = t

curTokenIs(p, t) == p.curToken.Type = t

peekPrecedence(p) ==
    IF p.peekToken.Type \in DOMAIN precedences
    THEN precedences[p.peekToken.Type]
    ELSE LOWEST

curPrecedence(p) ==
    IF p.curToken.Type \in DOMAIN precedences
    THEN precedences[p.curToken.Type]
    ELSE LOWEST

expect(p, t) ==
    IF peekTokenIs(p, t)
    THEN [ok |-> TRUE, err |-> nilErr, p |-> nextToken(p)]
    ELSE [ok |-> FALSE,
          err |-> createParseError("Expected token type \"" \o t \o "\", got \""
                                   \o p.peekToken.Type \o "\" instead"),
          p |-> p]

\* strconv.ParseInt(s, 0, 64) on a run of decimal digits: a leading 0 that
\* is followed by more digits selects base 8
DigitValue(c) ==
    CASE c = "0" -> 0 [] c = "1" -> 1 [] c = "2" -> 2 [] c = "3" -> 3
      [] c = "4" -> 4 [] c = "5" -> 5 [] c = "6" -> 6 [] c = "7" -> 7
      [] c = "8" -> 8 [] c = "9" -> 9

RECURSIVE DigitsValue(_, _, _)
DigitsValue(ds, base, acc) ==
    IF ds = <<>> THEN acc
    ELSE DigitsValue(Tail(ds), base, acc * base + DigitValue(Head(ds)))

RECURSIVE StripZeros(_)
StripZeros(ds) ==
    IF ds # <<>> /\ Head(ds) = "0" THEN StripZeros(Tail(ds)) ELSE ds

\* 2^63 - 1 in decimal; in octal it is 21 sevens
MaxInt64Digits ==
    <<"9", "2", "2", "3", "3", "7", "2", "0", "3", "6", "8", "5", "4", "7",
      "7", "5", "8", "0", "7">>

\* whether the digit run d, without leading zeros and read in the base, is at
\* most 2^63 - 1
FitsInt64_stripped(d, base) ==
    IF base = 8 THEN Len(d) <= 21
    ELSE \/ Len(d) < Len(MaxInt64Digits)
         \/ /\ Len(d) = Len(MaxInt64Digits)
            /\ ~\E i \in 1..Len(d) :
                  /\ DigitValue(d[i]) > DigitValue(MaxInt64Digits[i])
                  /\ \A j \in 1..(i - 1) : d[j] = MaxInt64Digits[j]

FitsInt64(ds, base) == FitsInt64_stripped(StripZeros(ds), base)

ParseInt_digits(s, base, ds) ==
    IF s = <<>> \/ \E i \in 1..Len(ds) : DigitValue(ds[i]) >= base
    THEN [ok |-> FALSE, value |-> 0]
    ELSE IF ~FitsInt64(ds, base)
    THEN [ok |-> FALSE, value |-> 0]
    ELSE [ok |-> TRUE, value |-> DigitsValue(ds, base, 0)]

ParseInt(s) ==
    IF Len(s) > 1 /\ s[1] = "0"
    THEN ParseInt_digits(s, 8, Tail(s))
    ELSE ParseInt_digits(s, 10, s)

parseIdent(p) == POk(Identifier(p.curToken), p)

parseInt_value(p, r) ==
    IF r.ok
    THEN POk(IntegerLiteral(p.curToken, r.value), p)
    ELSE PErr(createParseError("Expected integer literal, got unparseable \""
                               \o Str(p.curToken.Literal) \o "\" instead"), p)

parseInt(p) == parseInt_value(p, ParseInt(p.curToken.Literal))

parseBoolean(p) == POk(Boolean(p.curToken, curTokenIs(p, "TRUE")), p)

parseStringLiteral(p) == POk(StringLiteral(p.curToken), p)

\* the identifiers after the first, each behind a comma
RECURSIVE moreParameters(_, _)

moreParameters_ident(q, ids) == moreParameters(q, Append(ids, Identifier(q.curToken)))

moreParameters(p, ids) ==
    IF peekTokenIs(p, "COMMA")
    THEN moreParameters_ident(nextToken(nextToken(p)), ids)
    ELSE [ids |-> ids, p |-> p]

parseFunctionParameters_rparen(ids, e) ==
    IF ~e.ok THEN PErr(e.err, e.p) ELSE POk(ids, e.p)

parseFunctionParameters_more(m) ==
    parseFunctionParameters_rparen(m.ids, expect(m.p, "RPAREN"))

parseFunctionParameters_first(q) ==
    parseFunctionParameters_more(moreParameters(q, <<Identifier(q.curToken)>>))

parseFunctionParameters(p) ==
    IF peekTokenIs(p, "RPAREN")
    THEN POk(<<>>, nextToken(p))
    ELSE parseFunctionParameters_first(nextToken(p))

RECURSIVE parseStatement(_)
RECURSIVE parseExpression(_, _)
RECURSIVE infixLoop(_, _, _)
RECURSIVE blockLoop(_, _, _)
RECURSIVE moreExpressions(_, _)

blockLoop_stmt(tok, stmts, r) ==
    IF r.err # nilErr
    THEN PErr(r.err, r.p)
    ELSE blockLoop(nextToken(r.p), tok, Append(stmts, r.node))

\* the loop of parseBlockStatement, from the token after the brace
blockLoop(p, tok, stmts) ==
    IF ~curTokenIs(p, "RBRACE") /\ ~curTokenIs(p, "EOF")
    THEN blockLoop_stmt(tok, stmts, parseStatement(p))
    ELSE POk(BlockStatement(tok, stmts), p)

parseBlockStatement(p) == blockLoop(nextToken(p), p.curToken, <<>>)

moreExpressions_exp(list, r) ==
    IF r.err # nilErr
    THEN PErr(r.err, r.p)
    ELSE moreExpressions(r.p, Append(list, r.node))

\* the expressions after the first, each behind a comma
moreExpressions(p, list) ==
    IF peekTokenIs(p, "COMMA")
    THEN moreExpressions_exp(list, parseExpression(nextToken(nextToken(p)), LOWEST))
    ELSE POk(list, p)

parseExpressionList_end(list, e) ==
    IF ~e.ok THEN PErr(e.err, e.p) ELSE POk(list, e.p)

parseExpressionList_more(m, end) ==
    IF m.err # nilErr THEN PErr(m.err, m.p)
    ELSE parseExpressionList_end(m.node, expect(m.p, end))

parseExpressionList_first(r, end) ==
    IF r.err # nilErr THEN PErr(r.err, r.p)
    ELSE parseExpressionList_more(moreExpressions(r.p, <<r.node>>), end)

parseExpressionList(p, end) ==
    IF peekTokenIs(p, end)
    THEN POk(<<>>, nextToken(p))
    ELSE parseExpressionList_first(parseExpression(nextToken(p), LOWEST), end)

parseCallArguments(p) == parseExpressionList(p, "RPAREN")

parseArrayLiteral_elements(tok, r) ==
    IF r.err # nilErr THEN PErr(r.err, r.p)
    ELSE POk(ArrayLiteral(tok, r.node), r.p)

parseArrayLiteral(p) ==
    parseArrayLiteral_elements(p.curToken, parseExpressionList(p, "RBRACKET"))

parseCallExpression_args(tok, function, r) ==
    IF r.err # nilErr THEN PErr(r.err, r.p)
    ELSE POk(CallExpression(tok, function, r.node), r.p)

parseCallExpression(p, function) ==
    parseCallExpression_args(p.curToken, function, parseCallArguments(p))

parseIndexExpression_rbracket(tok, left, index, e) ==
    IF ~e.ok THEN PErr(e.err, e.p)
    ELSE POk(IndexExpression(tok, left, index), e.p)

parseIndexExpression_index(tok, left, r) ==
    IF r.err # nilErr THEN PErr(r.err, r.p)
    ELSE parseIndexExpression_rbracket(tok, left, r.node, expect(r.p, "RBRACKET"))

parseIndexExpression(p, left) ==
    parseIndexExpression_index(p.curToken, left,
                               parseExpression(nextToken(p), LOWEST))

parsePrefixExpression_right(tok, r) ==
    IF r.err # nilErr THEN PErr(r.err, r.p)
    ELSE POk(PrefixExpression(tok, r.node), r.p)

parsePrefixExpression(p) ==
    parsePrefixExpression_right(p.curToken, parseExpression(nextToken(p), PREFIX))

parseInfixExpression_right(tok, left, r) ==
    IF r.err # nilErr THEN PErr(r.err, r.p)
    ELSE POk(InfixExpression(tok, left, r.node), r.p)

parseInfixExpression(p, left) ==
    parseInfixExpression_right(p.curToken, left,
                               parseExpression(nextToken(p), curPrecedence(p)))

parseGrouped_rparen(exp, e) ==
    IF ~e.ok
    THEN PErr(createParseError("Expected closing parenthesis."), e.p)
    ELSE POk(exp, e.p)

parseGrouped_exp(r) ==
    IF r.err # nilErr THEN PErr(r.err, r.p)
    ELSE parseGrouped_rparen(r.node, expect(r.p, "RPAREN"))

parseGrouped(p) == parseGrouped_exp(parseExpression(nextToken(p), LOWEST))

parseIfExpression_alternative(tok, cond, cons, alt) ==
    IF alt.err # nilErr THEN PErr(alt.err, alt.p)
    ELSE POk(IfExpression(tok, cond, cons, alt.node), alt.p)

parseIfExpression_elseBrace(tok, cond, cons, e) ==
    IF ~e.ok THEN PErr(e.err, e.p)
    ELSE parseIfExpression_alternative(tok, cond, cons, parseBlockStatement(e.p))

\* the else branch of parseIfExpression, after the consequence
parseIfExpression_else(p, tok, cond, cons) ==
    IF peekTokenIs(p, "ELSE")
    THEN parseIfExpression_elseBrace(tok, cond, cons,
                                     expect(nextToken(p), "LBRACE"))
    ELSE POk(IfExpression(tok, cond, cons, NilNode), p)

parseIfExpression_consequence(tok, cond, cons) ==
    IF cons.err # nilErr THEN PErr(cons.err, cons.p)
    ELSE parseIfExpression_else(cons.p, tok, cond, cons.node)

parseIfExpression_lbrace(tok, cond, e) ==
    IF ~e.ok THEN PErr(e.err, e.p)
    ELSE parseIfExpression_consequence(tok, cond, parseBlockStatement(e.p))

parseIfExpression_rparen(tok, cond, e) ==
    IF ~e.ok THEN PErr(e.err, e.p)
    ELSE parseIfExpression_lbrace(tok, cond, expect(e.p, "LBRACE"))

parseIfExpression_condition(tok, cond) ==
    IF cond.err # nilErr THEN PErr(cond.err, cond.p)
    ELSE parseIfExpression_rparen(tok, cond.node, expect(cond.p, "RPAREN"))

parseIfExpression_lparen(tok, e) ==
    IF ~e.ok THEN PErr(e.err, e.p)
    ELSE parseIfExpression_condition(tok, parseExpression(nextToken(e.p), LOWEST))

parseIfExpression(p) == parseIfExpression_lparen(p.curToken, expect(p, "LPAREN"))

parseFunctionLiteral_body(tok, params, body) ==
    IF body.err # nilErr THEN PErr(body.err, body.p)
    ELSE POk(FunctionLiteral(tok, params, body.node), body.p)

parseFunctionLiteral_lbrace(tok, params, e) ==
    IF ~e.ok THEN PErr(e.err, e.p)
    ELSE parseFunctionLiteral_body(tok, params, parseBlockStatement(e.p))

parseFunctionLiteral_params(tok, params) ==
    IF params.err # nilErr THEN PErr(params.err, params.p)
    ELSE parseFunctionLiteral_lbrace(tok, params.node, expect(params.p, "LBRACE"))

parseFunctionLiteral_lparen(tok, e) ==
    IF ~e.ok THEN PErr(e.err, e.p)
    ELSE parseFunctionLiteral_params(tok, parseFunctionParameters(e.p))

parseFunctionLiteral(p) ==
    parseFunctionLiteral_lparen(p.curToken, expect(p, "LPAREN"))

\* the prefix parse function registered for the current token
prefixParse(p) ==
    CASE p.curToken.Type = "IDENT" -> parseIdent(p)
      [] p.curToken.Type = "INT" -> parseInt(p)
      [] p.curToken.Type \in {"BANG", "MINUS"} -> parsePrefixExpression(p)
      [] p.curToken.Type \in {"TRUE", "FALSE"} -> parseBoolean(p)
      [] p.curToken.Type = "LPAREN" -> parseGrouped(p)
      [] p.curToken.Type = "IF" -> parseIfExpression(p)
      [] p.curToken.Type = "FUNCTION" -> parseFunctionLiteral(p)
      [] p.curToken.Type = "STRING" -> parseStringLiteral(p)
      [] p.curToken.Type = "LBRACKET" -> parseArrayLiteral(p)

\* the infix parse function registered for the current token
infixParse(p, left) ==
    CASE p.curToken.Type = "LPAREN" -> parseCallExpression(p, left)
      [] p.curToken.Type = "LBRACKET" -> parseIndexExpression(p, left)
      [] OTHER -> parseInfixExpression(p, left)

infixLoop_lhs(precedence, r) ==
    IF r.err # nilErr THEN PErr(r.err, r.p)
    ELSE infixLoop(r.p, precedence, r.node)

infixLoop_LessOrEqual(p, precedence, lhs) ==
    IF ~peekTokenIs(p, "SEMICOLON") /\ precedence <= peekPrecedence(p)
    THEN IF p.peekToken.Type \notin infixParseFns
         THEN POk(lhs, p)
         ELSE infixLoop_lhs(precedence, infixParse(nextToken(p), lhs))
    ELSE POk(lhs, p)

\* the loop of parseExpression, after the prefix parse function returned lhs
infixLoop(p, precedence, lhs) ==
    IF ~peekTokenIs(p, "SEMICOLON") /\ precedence < peekPrecedence(p)
    THEN IF p.peekToken.Type \notin infixParseFns
         THEN POk(lhs, p)
         ELSE infixLoop_lhs(precedence, infixParse(nextToken(p), lhs))
    ELSE POk(lhs, p)

parseExpression_lhs(precedence, lhs) ==
    IF lhs.err # nilErr THEN PErr(lhs.err, lhs.p)
    ELSE infixLoop(lhs.p, precedence, lhs.node)

parseExpression(p, precedence) ==
    IF p.curToken.Type \notin prefixParseFns
    THEN PErr(createParseError("No prefix expression found for \""
                               \o p.curToken.Type \o "\" (\""
                               \o Str(p.curToken.Literal) \o "\")."), p)
    ELSE parseExpression_lhs(precedence, prefixParse(p))

parseLetStatement_value(tok, name, r) ==
    IF r.err # nilErr THEN PErr(r.err, r.p)
    ELSE POk(LetStatement(tok, name, r.node),
             IF peekTokenIs(r.p, "SEMICOLON") THEN nextToken(r.p) ELSE r.p)

parseLetStatement_assign(tok, name, e) ==
    IF ~e.ok THEN PErr(e.err, e.p)
    ELSE parseLetStatement_value(tok, name, parseExpression(nextToken(e.p), LOWEST))

parseLetStatement_ident(tok, e) ==
    IF ~e.ok THEN PErr(e.err, e.p)
    ELSE parseLetStatement_assign(tok, Identifier(e.p.curToken),
                                  expect(e.p, "ASSIGN"))

parseLetStatement(p) == parseLetStatement_ident(p.curToken, expect(p, "IDENT"))

parseReturnStatement_value(tok, r) ==
    IF r.err # nilErr THEN PErr(r.err, r.p)
    ELSE POk(ReturnStatement(tok, r.node), nextToken(r.p))

parseReturnStatement(p) ==
    parseReturnStatement_value(p.curToken, parseExpression(nextToken(p), LOWEST))

parseExpressionStatement_next(stmt, q) ==
    POk(stmt, IF peekTokenIs(q, "SEMICOLON") THEN nextToken(q) ELSE q)

parseExpressionStatement_exp(tok, r) ==
    IF r.err # nilErr THEN PErr(r.err, r.p)
    ELSE parseExpressionStatement_next(ExpressionStatement(tok, r.node),
                                       nextToken(r.p))

parseExpressionStatement(p) ==
    parseExpressionStatement_exp(p.curToken, parseExpression(p, LOWEST))

parseStatement(p) ==
    CASE p.curToken.Type = "LET" -> parseLetStatement(p)
      [] p.curToken.Type = "RETURN" -> parseReturnStatement(p)
      [] OTHER -> parseExpressionStatement(p)

RECURSIVE programLoop(_, _)

programLoop_stmt(stmts, r) ==
    IF r.err # nilErr
    THEN PErr(r.err, r.p)
    ELSE programLoop(nextToken(r.p), Append(stmts, r.node))

\* the loop of ParseProgram
programLoop(p, stmts) ==
    IF p.curToken.Type # "EOF"
    THEN programLoop_stmt(stmts, parseStatement(p))
    ELSE POk(Program(stmts), p)

ParseProgram(p) == programLoop(p, <<>>)

(***************************************************************************)
(* Objects.  Integer, Boolean, Null, ReturnValue and Error are in          *)
(* src/unnamed/part_002; String, Array, Function and Builtin are the later *)
(* kinds the tree walker and the builtins use.  Addr is the pointer of an  *)
(* allocated object, kept for the kinds the evaluator compares by pointer. *)
(* Integer values stay far inside the 64-bit range in this model, so the   *)
(* arithmetic below never wraps.                                           *)
(***************************************************************************)
NilObj == [Type |-> "nil"]          \* Go's nil Object
NULL == [Type |-> "NULL"]
TRUE_OBJ == [Type |-> "BOOLEAN", Value |-> TRUE]
FALSE_OBJ == [Type |-> "BOOLEAN", Value |-> FALSE]

NativeToBooleanObject(input) == IF input THEN TRUE_OBJ ELSE FALSE_OBJ

IntegerObj(v) == [Type |-> "INTEGER", Value |-> v]
ErrorObj(msg) == [Type |-> "ERROR", Message |-> msg]
ReturnValueObj(v, addr) == [Type |-> "RETURN_VALUE", Value |-> v, Addr |-> addr]
StringObj(v, addr) == [Type |-> "STRING", Value |-> v, Addr |-> addr]
ArrayObj(els, addr) == [Type |-> "ARRAY", Elements |-> els, Addr |-> addr]
FunctionObj(params, body, env, addr) ==
    [Type |-> "FUNCTION", Parameters |-> params, Body |-> body, Env |-> env,
     Addr |-> addr]
BuiltinObj(name) == [Type |-> "BUILTIN", Name |-> name]

IsNil(obj) == obj.Type = "nil"

isError(obj) == IF ~IsNil(obj) THEN obj.Type = "ERROR" ELSE FALSE

\* l == r on two Objects: the same pointer
SameObject(l, r) ==
    /\ l.Type = r.Type
    /\ CASE l.Type \in {"STRING", "ARRAY", "FUNCTION", "RETURN_VALUE"} ->
                l.Addr = r.Addr
         [] OTHER -> l = r

createEvalError(msg) == msg

(***************************************************************************)
(* Environments.  h is the heap of Environment objects, a sequence indexed *)
(* by address; outer = 0 is the nil outer pointer.                         *)
(***************************************************************************)
EmptyStore == <<>>

NewEnvironemnt(h) == Append(h, [store |-> EmptyStore, outer |-> 0])

NewEnclosedEnvironment(h, outer) ==
    LET n == NewEnvironemnt(h)
    IN  [n EXCEPT ![Len(n)].outer = outer]

RECURSIVE EnvGet(_, _, _)
EnvGet(h, e, name) ==
    IF name \in DOMAIN h[e].store
    THEN [obj |-> h[e].store[name], ok |-> TRUE]
    ELSE IF h[e].outer # 0
    THEN EnvGet(h, h[e].outer, name)
    ELSE [obj |-> NilObj, ok |-> FALSE]

\* a Set that assigns to the binding Get would find, when there is one
RECURSIVE EnvSet_AssignsOuter(_, _, _, _)
EnvSet_AssignsOuter(h, e, name, value) ==
    IF name \notin DOMAIN h[e].store /\ h[e].outer # 0
       /\ EnvGet(h, h[e].outer, name).ok
    THEN EnvSet_AssignsOuter(h, h[e].outer, name, value)
    ELSE [h EXCEPT ![e].store =
            [n \in DOMAIN h[e].store \cup {name} |->
                IF n = name THEN value ELSE h[e].store[n]]]

EnvSet(h, e, name, value) ==
    [h EXCEPT ![e].store =
        [n \in DOMAIN h[e].store \cup {name} |->
            IF n = name THEN value ELSE h[e].store[n]]]

(***************************************************************************)
(* Builtins (src/object/builtins.go).  A builtin returns an Object, which  *)
(* is NilObj where the Go function returns nil; panic is set where the Go  *)
(* function dereferences a nil Object.                                     *)
(***************************************************************************)
BuiltinNames == {"len", "puts", "first", "last", "rest", "push"}

\* the name an identifier spells when it names a builtin, else ""
BuiltinNamed(value) ==
    IF \E n \in BuiltinNames : Str(value) = n THEN Str(value) ELSE ""

newError(msg) == msg

\* stands for the backquote the messages put around a builtin's name
TICK == "'"

BOk(obj, next) == [obj |-> obj, next |-> next, panic |-> FALSE]
BPanic(next) == [obj |-> NilObj, next |-> next, panic |-> TRUE]

wrongArgs(n, want) ==
    ErrorObj(newError("wrong number of arguments. got=" \o ToString(n)
                      \o ", want=" \o ToString(want)))

builtinLen(args, next) ==
    IF Len(args) # 1 THEN BOk(wrongArgs(Len(args), 1), next)
    ELSE IF IsNil(args[1]) THEN BPanic(next)
    ELSE IF args[1].Type = "STRING"
    THEN BOk(IntegerObj(Len(args[1].Value)), next)
    ELSE IF args[1].Type = "ARRAY"
    THEN BOk(IntegerObj(Len(args[1].Elements)), next)
    ELSE BOk(ErrorObj(newError("argument to " \o TICK \o "len" \o TICK \o " not supported, got "
                               \o args[1].Type)), next)

builtinPuts(args, next) ==
    IF \E i \in 1..Len(args) : IsNil(args[i]) THEN BPanic(next)
    ELSE BOk(NULL, next)

mustBeArray(name, args) ==
    ErrorObj(newError("argument to " \o TICK \o name \o TICK \o " must be ARRAY, got "
                      \o args[1].Type))

builtinFirst(args, next) ==
    IF Len(args) # 1 THEN BOk(wrongArgs(Len(args), 1), next)
    ELSE IF IsNil(args[1]) THEN BPanic(next)
    ELSE IF args[1].Type # "ARRAY" THEN BOk(mustBeArray("first", args), next)
    ELSE IF Len(args[1].Elements) > 0 THEN BOk(args[1].Elements[1], next)
    ELSE BOk(NilObj, next)

builtinLast(args, next) ==
    IF Len(args) # 1 THEN BOk(wrongArgs(Len(args), 1), next)
    ELSE IF IsNil(args[1]) THEN BPanic(next)
    ELSE IF args[1].Type # "ARRAY" THEN BOk(mustBeArray("last", args), next)
    ELSE IF Len(args[1].Elements) > 0
    THEN BOk(args[1].Elements[Len(args[1].Elements)], next)
    ELSE BOk(NilObj, next)

builtinRest(args, next) ==
    IF Len(args) # 1 THEN BOk(wrongArgs(Len(args), 1), next)
    ELSE IF IsNil(args[1]) THEN BPanic(next)
    ELSE IF args[1].Type # "ARRAY" THEN BOk(mustBeArray("rest", args), next)
    ELSE IF Len(args[1].Elements) > 0
    THEN BOk(ArrayObj(Tail(args[1].Elements), next), next + 1)
    ELSE BOk(NilObj, next)

builtinPush(args, next) ==
    IF Len(args) # 2 THEN BOk(wrongArgs(Len(args), 2), next)
    ELSE IF IsNil(args[1]) THEN BPanic(next)
    ELSE IF args[1].Type # "ARRAY" THEN BOk(mustBeArray("push", args), next)
    ELSE BOk(ArrayObj(Append(args[1].Elements, args[2]), next), next + 1)

\* builtin.Fn(args): the object returned and the next free address
BuiltinFn(name, args, next) ==
    CASE name = "len" -> builtinLen(args, next)
      [] name = "puts" -> builtinPuts(args, next)
      [] name = "first" -> builtinFirst(args, next)
      [] name = "last" -> builtinLast(args, next)
      [] name = "rest" -> builtinRest(args, next)
      [] name = "push" -> builtinPush(args, next)

(***************************************************************************)
(* Tree walker.  st is the interpreter's memory: envs (the Environment     *)
(* heap), next (the next free object address), and the observation of the  *)
(* run: trace (the events below, in order), stack (the statement lists     *)
(* being evaluated, innermost last), acts (statement lists entered so far) *)
(* and body (set while applyFunction is about to evaluate a function       *)
(* body).  Every evaluation returns obj and err as the Go function does,   *)
(* the memory after it, and panic when the Go code panics.                 *)
(***************************************************************************)
ROk(obj, st) == [obj |-> obj, err |-> nilErr, st |-> st, panic |-> FALSE]
RErr(obj, err, st) == [obj |-> obj, err |-> err, st |-> st, panic |-> FALSE]
RPanic(st) == [obj |-> NilObj, err |-> nilErr, st |-> st, panic |-> TRUE]

ErrorPair(err, st) == RErr(ErrorObj(err), err, st)

Log(st, e) == [st EXCEPT !.trace = Append(@, e)]

\* a statement list is entered: act is its number, parent the list around it
\* (0 if none), boundary whether it is a program or a function body
Enter(st, n) ==
    Log([st EXCEPT !.acts = @ + 1, !.stack = Append(@, st.acts + 1),
                   !.body = FALSE],
        [ev |-> "enter", act |-> st.acts + 1,
         parent |-> IF st.stack = <<>> THEN 0 ELSE st.stack[Len(st.stack)],
         boundary |-> st.stack = <<>> \/ st.body, n |-> n])

\* a statement list returns r
Leave(r, act) ==
    IF r.panic THEN r
    ELSE [r EXCEPT !.st =
            Log([r.st EXCEPT !.stack = SubSeq(@, 1, Len(@) - 1)],
                [ev |-> "leave", act |-> act, obj |-> r.obj, err |-> r.err,
                 envs |-> r.st.envs])]

Begin(st, act, i) == Log(st, [ev |-> "begin", act |-> act, idx |-> i])

End(r, act, i, stmt) ==
    Log(r.st, [ev |-> "end", act |-> act, idx |-> i, stmt |-> stmt.Kind,
               obj |-> r.obj, err |-> r.err, envs |-> r.st.envs])

\* obj == singleton, one of the pointers NULL, TRUE and FALSE
Is(obj, singleton) == obj.Type = singleton.Type /\ obj = singleton

isTruthy(obj) ==
    CASE Is(obj, NULL) -> FALSE
      [] Is(obj, TRUE_OBJ) -> TRUE
      [] Is(obj, FALSE_OBJ) -> FALSE
      [] OTHER -> TRUE

evalBangOperator(right, st) ==
    CASE Is(right, TRUE_OBJ) -> ROk(FALSE_OBJ, st)
      [] Is(right, FALSE_OBJ) -> ROk(TRUE_OBJ, st)
      [] Is(right, NULL) -> ROk(TRUE_OBJ, st)
      [] OTHER ->
            IF IsNil(right) THEN RPanic(st)
            ELSE RErr(ErrorObj(createEvalError("cannot apply ! operator to "
                                               \o right.Type)),
                      createEvalError("cannot apply ! operator to " \o right.Type),
                      st)

evalNegOperator(right, st) ==
    IF IsNil(right) THEN RPanic(st)
    ELSE IF right.Type # "INTEGER"
    THEN RErr(ErrorObj(createEvalError("cannot apply - operator to " \o right.Type)),
              createEvalError("cannot apply - operator to " \o right.Type), st)
    ELSE ROk(IntegerObj(-right.Value), st)

evalPrefix(op, right, st) ==
    CASE op = <<"!">> -> evalBangOperator(right, st)
      [] op = <<"-">> -> evalNegOperator(right, st)
      [] OTHER ->
            IF IsNil(right) THEN RPanic(st)
            ELSE RErr(ErrorObj(createEvalError("unknown operator: " \o Str(op)
                                               \o right.Type)),
                      createEvalError("unknown operator: " \o Str(op) \o right.Type),
                      st)

cannotOperate(op, left, right, st) ==
    ErrorPair(createEvalError("operator " \o Str(op) \o " cannot operate with a "
                              \o left.Type \o " and " \o right.Type), st)

\* Go's integer division and remainder truncate toward zero
Abs(x) == IF x < 0 THEN -x ELSE x
Quo(l, r) == IF (l < 0) = (r < 0) THEN Abs(l) \div Abs(r) ELSE -(Abs(l) \div Abs(r))
Rem(l, r) == l - r * Quo(l, r)

\* the bitwise operators on two's complement integers of any width
RECURSIVE BitAnd(_, _)
BitAnd(a, b) ==
    CASE a = 0 \/ b = 0 -> 0
      [] a = -1 -> b
      [] b = -1 -> a
      [] OTHER -> (a % 2) * (b % 2) + 2 * BitAnd(a \div 2, b \div 2)

RECURSIVE BitOr(_, _)
BitOr(a, b) ==
    CASE a = 0 -> b
      [] b = 0 -> a
      [] a = -1 \/ b = -1 -> -1
      [] OTHER -> (IF a % 2 = 1 \/ b % 2 = 1 THEN 1 ELSE 0)
                  + 2 * BitOr(a \div 2, b \div 2)

RECURSIVE BitXor(_, _)
BitXor(a, b) ==
    CASE a = 0 -> b
      [] b = 0 -> a
      [] a = -1 -> -b - 1
      [] b = -1 -> -a - 1
      [] OTHER -> (IF a % 2 # b % 2 THEN 1 ELSE 0)
                  + 2 * BitXor(a \div 2, b \div 2)

RECURSIVE Pow2(_)
Pow2(n) == IF n = 0 THEN 1 ELSE 2 * Pow2(n - 1)

evalIntegerInfix(op, left, right, st) ==
    LET leftVal == left.Value
        rightVal == right.Value
        o == Str(op)
    IN  CASE o = "+" -> ROk(IntegerObj(leftVal + rightVal), st)
          [] o = "-" -> ROk(IntegerObj(leftVal - rightVal), st)
          [] o = "*" -> ROk(IntegerObj(leftVal * rightVal), st)
          [] o = "/" -> IF rightVal = 0 THEN RPanic(st)
                        ELSE ROk(IntegerObj(Quo(leftVal, rightVal)), st)
          [] o = "%" -> IF rightVal = 0 THEN RPanic(st)
                        ELSE ROk(IntegerObj(Rem(leftVal, rightVal)), st)
          [] o = "|" -> ROk(IntegerObj(BitOr(leftVal, rightVal)), st)
          [] o = "&" -> ROk(IntegerObj(BitAnd(leftVal, rightVal)), st)
          [] o = "^" -> ROk(IntegerObj(BitXor(leftVal, rightVal)), st)
          [] o = "<<" -> IF rightVal < 0 THEN RPanic(st)
                         ELSE IF rightVal >= 64 THEN ROk(IntegerObj(0), st)
                         ELSE ROk(IntegerObj(leftVal * Pow2(rightVal)), st)
          [] o = ">>" -> IF rightVal < 0 THEN RPanic(st)
                         ELSE IF rightVal >= 64
                         THEN ROk(IntegerObj(IF leftVal < 0 THEN -1 ELSE 0), st)
                         ELSE ROk(IntegerObj(leftVal \div Pow2(rightVal)), st)
          [] o = "<" -> ROk(NativeToBooleanObject(leftVal < rightVal), st)
          [] o = ">" -> ROk(NativeToBooleanObject(leftVal > rightVal), st)
          [] o = "==" -> ROk(NativeToBooleanObject(leftVal = rightVal), st)
          [] o = "!=" -> ROk(NativeToBooleanObject(leftVal # rightVal), st)
          [] OTHER -> cannotOperate(op, left, right, st)

evalStringInfix(op, left, right, st) ==
    IF Str(op) \in {"+", "<<"}
    THEN ROk(StringObj(left.Value \o right.Value, st.next),
             [st EXCEPT !.next = @ + 1])
    ELSE cannotOperate(op, left, right, st)

evalArrayInfix_val(b, st) ==
    IF b.panic THEN RPanic(st)
    ELSE IF isError(b.obj) THEN RErr(b.obj, b.obj.Message, [st EXCEPT !.next = b.next])
    ELSE ROk(b.obj, [st EXCEPT !.next = b.next])

evalArrayInfix(op, left, right, st) ==
    IF Str(op) = "<<"
    THEN evalArrayInfix_val(BuiltinFn("push", <<left, right>>, st.next), st)
    ELSE cannotOperate(op, left, right, st)

\* evalInfix without its type mismatch case
evalInfix_NoMismatch(op, left, right, st) ==
    IF IsNil(left) \/ (left.Type = "INTEGER" /\ IsNil(right)) THEN RPanic(st)
    ELSE IF left.Type = "INTEGER" /\ right.Type = "INTEGER"
    THEN evalIntegerInfix(op, left, right, st)
    ELSE IF Str(op) = "=="
    THEN ROk(NativeToBooleanObject(SameObject(left, right)), st)
    ELSE IF Str(op) = "!="
    THEN ROk(NativeToBooleanObject(~SameObject(left, right)), st)
    ELSE IF IsNil(right) THEN RPanic(st)
    ELSE IF left.Type = "STRING" /\ right.Type = "STRING"
    THEN evalStringInfix(op, left, right, st)
    ELSE IF left.Type = "ARRAY"
    THEN evalArrayInfix(op, left, right, st)
    ELSE cannotOperate(op, left, right, st)

evalInfix(op, left, right, st) ==
    IF IsNil(left) \/ (left.Type = "INTEGER" /\ IsNil(right)) THEN RPanic(st)
    ELSE IF left.Type = "INTEGER" /\ right.Type = "INTEGER"
    THEN evalIntegerInfix(op, left, right, st)
    ELSE IF Str(op) = "=="
    THEN ROk(NativeToBooleanObject(SameObject(left, right)), st)
    ELSE IF Str(op) = "!="
    THEN ROk(NativeToBooleanObject(~SameObject(left, right)), st)
    ELSE IF IsNil(right) THEN RPanic(st)
    ELSE IF left.Type # right.Type
    THEN RErr(ErrorObj(createEvalError("type mismatch: " \o left.Type \o " "
                                       \o Str(op) \o " " \o right.Type)),
              createEvalError("type mismatch: " \o left.Type \o " "
                              \o Str(op) \o " " \o right.Type), st)
    ELSE IF left.Type = "STRING" /\ right.Type = "STRING"
    THEN evalStringInfix(op, left, right, st)
    ELSE IF left.Type = "ARRAY"
    THEN evalArrayInfix(op, left, right, st)
    ELSE cannotOperate(op, left, right, st)

evalIdentifier_val(node, g, st) ==
    IF g.ok THEN ROk(g.obj, st)
    ELSE IF BuiltinNamed(node.Value) # ""
    THEN ROk(BuiltinObj(BuiltinNamed(node.Value)), st)
    ELSE ErrorPair(createEvalError("identifier not found: " \o Str(node.Value)), st)

evalIdentifier(node, env, st) ==
    evalIdentifier_val(node, EnvGet(st.envs, env, node.Value), st)

evalArrayIndexExpression(array, index, st) ==
    IF index.Value < 0 \/ index.Value > Len(array.Elements) - 1
    THEN ErrorPair(createEvalError("index out of bounds"), st)
    ELSE ROk(array.Elements[index.Value + 1], st)

evalIndexExpression(left, index, st) ==
    IF IsNil(left) \/ (left.Type = "ARRAY" /\ IsNil(index)) THEN RPanic(st)
    ELSE IF left.Type = "ARRAY" /\ index.Type = "INTEGER"
    THEN evalArrayIndexExpression(left, index, st)
    ELSE ErrorPair(createEvalError("Cannot index array with type " \o left.Type), st)

unwrapReturnValue(obj) == IF obj.Type = "RETURN_VALUE" THEN obj.Value ELSE obj

\* the loop of extendFunctionEnv: parameter i is bound to args[i]
RECURSIVE bindParameters(_, _, _, _, _)
bindParameters(h, env, params, args, i) ==
    IF i > Len(params) THEN h
    ELSE bindParameters(EnvSet(h, env, params[i].Value, args[i]),
                        env, params, args, i + 1)

\* extendFunctionEnv panics when an argument is missing
extendFunctionEnvPanics(fn, args) == Len(args) < Len(fn.Parameters)

\* extendFunctionEnv once NewEnclosedEnvironment has returned the heap h
\* whose last Environment is the new one
extendFunctionEnv_env(fn, args, st, h) ==
    [env |-> Len(h),
     st |-> [st EXCEPT !.envs = bindParameters(h, Len(h), fn.Parameters, args, 1)]]

extendFunctionEnv(fn, args, st) ==
    extendFunctionEnv_env(fn, args, st, NewEnclosedEnvironment(st.envs, fn.Env))

\* an evalBlock that returns at once for a ReturnValue only
blockReturns_ReturnOnly(result) == result.Type = "RETURN_VALUE"

\* whether evalBlock returns the result of a statement at once
blockReturns(result) == result.Type = "RETURN_VALUE" \/ result.Type = "ERROR"

RECURSIVE Eval(_, _, _)
RECURSIVE evalProgramLoop(_, _, _, _, _, _)
RECURSIVE evalBlockLoop(_, _, _, _, _, _)
RECURSIVE evalExpressionsLoop(_, _, _, _, _)

\* evalProgram once statement i has returned r and s is the memory after it
evalProgramLoop_res(stmts, i, env, act, r, s) ==
    IF r.err # nilErr
    THEN Leave(RErr(ErrorObj(r.err), r.err, s), act)
    ELSE IF r.obj.Type = "RETURN_VALUE"
    THEN Leave(ROk(r.obj.Value, s), act)
    ELSE IF r.obj.Type = "ERROR"
    THEN Leave(RErr(r.obj, r.obj.Message, s), act)
    ELSE evalProgramLoop(stmts, i + 1, env, r.obj, s, act)

evalProgramLoop_stmt(stmts, i, env, act, r) ==
    IF r.panic THEN r
    ELSE evalProgramLoop_res(stmts, i, env, act, r, End(r, act, i, stmts[i]))

\* the loop of evalProgram from statement i on; act numbers this run of it
evalProgramLoop(stmts, i, env, result, st, act) ==
    IF i > Len(stmts) THEN Leave(ROk(result, st), act)
    ELSE evalProgramLoop_stmt(stmts, i, env, act,
                              Eval(stmts[i], env, Begin(st, act, i)))

evalProgram(stmts, env, st) ==
    evalProgramLoop(stmts, 1, env, NilObj, Enter(st, Len(stmts)), st.acts + 1)

\* evalBlock once statement i has returned r and s is the memory after it
evalBlockLoop_res(stmts, i, env, act, r, s) ==
    IF r.err # nilErr
    THEN Leave(RErr(ErrorObj(r.err), r.err, s), act)
    ELSE IF IsNil(r.obj) THEN RPanic(s)
    ELSE IF blockReturns(r.obj) THEN Leave(ROk(r.obj, s), act)
    ELSE evalBlockLoop(stmts, i + 1, env, r.obj, s, act)

evalBlockLoop_stmt(stmts, i, env, act, r) ==
    IF r.panic THEN r
    ELSE evalBlockLoop_res(stmts, i, env, act, r, End(r, act, i, stmts[i]))

\* the loop of evalBlock from statement i on
evalBlockLoop(stmts, i, env, res, st, act) ==
    IF i > Len(stmts) THEN Leave(ROk(res, st), act)
    ELSE evalBlockLoop_stmt(stmts, i, env, act,
                            Eval(stmts[i], env, Begin(st, act, i)))

evalBlock(block, env, st) ==
    evalBlockLoop(block.Statements, 1, env, NilObj,
                  Enter(st, Len(block.Statements)), st.acts + 1)

evalExpressionsLoop_exp(exps, i, env, result, r) ==
    IF r.panic
    THEN [objs |-> <<>>, err |-> nilErr, st |-> r.st, panic |-> TRUE]
    ELSE IF r.err = nilErr
    THEN evalExpressionsLoop(exps, i + 1, env, Append(result, r.obj), r.st)
    ELSE [objs |-> <<r.obj>>, err |-> r.err, st |-> r.st, panic |-> FALSE]

\* the loop of evalExpressions from expression i on: the objects, the error
evalExpressionsLoop(exps, i, env, result, st) ==
    IF i > Len(exps)
    THEN [objs |-> result, err |-> nilErr, st |-> st, panic |-> FALSE]
    ELSE evalExpressionsLoop_exp(exps, i, env, result, Eval(exps[i], env, st))

evalExpressions(exps, env, st) == evalExpressionsLoop(exps, 1, env, <<>>, st)

evalIfExpression_condition(ie, env, c) ==
    IF c.panic THEN c
    ELSE IF c.err # nilErr THEN RErr(ErrorObj(c.err), c.err, c.st)
    ELSE IF isError(c.obj) THEN RErr(c.obj, c.obj.Message, c.st)
    ELSE IF isTruthy(c.obj) THEN Eval(ie.Consequence, env, c.st)
    ELSE IF ie.Alternative.Kind # "nil" THEN Eval(ie.Alternative, env, c.st)
    ELSE ROk(NULL, c.st)

evalIfExpression(ie, env, st) ==
    evalIfExpression_condition(ie, env, Eval(ie.Condition, env, st))

\* applyFunction once the function body, whose statement list is act, has
\* returned r
applyFunction_evaluated(r, act) ==
    IF r.panic THEN r
    ELSE IF r.err # nilErr THEN ErrorPair(r.err, r.st)
    ELSE ROk(unwrapReturnValue(r.obj),
             Log(r.st, [ev |-> "deliver", act |-> act,
                        obj |-> unwrapReturnValue(r.obj)]))

applyFunction_extended(fn, x) ==
    applyFunction_evaluated(Eval(fn.Body, x.env, [x.st EXCEPT !.body = TRUE]),
                            x.st.acts + 1)

applyFunction_builtin(b, st) ==
    IF b.panic THEN RPanic(st) ELSE ROk(b.obj, [st EXCEPT !.next = b.next])

\* applyFunction, with the call noted in st
applyFunction_switch(fn, args, st) ==
    IF IsNil(fn) THEN RPanic(st)
    ELSE IF fn.Type = "FUNCTION"
    THEN IF extendFunctionEnvPanics(fn, args) THEN RPanic(st)
         ELSE applyFunction_extended(fn, extendFunctionEnv(fn, args, st))
    ELSE IF fn.Type = "BUILTIN"
    THEN applyFunction_builtin(BuiltinFn(fn.Name, args, st.next), st)
    ELSE ErrorPair(createEvalError("not a function: " \o fn.Type), st)

applyFunction(fn, args, st) ==
    applyFunction_switch(fn, args,
                         Log(st, [ev |-> "apply", fn |-> fn.Type, args |-> args]))

\* the cases of Eval, each once its first sub-evaluation has returned
Eval_prefix_right(node, r) ==
    IF r.panic THEN r
    ELSE IF r.err = nilErr
    THEN IF isError(r.obj) THEN RErr(r.obj, r.obj.Message, r.st)
         ELSE evalPrefix(node.Operator, r.obj, r.st)
    ELSE RErr(ErrorObj(r.err), r.err, r.st)

Eval_infix_right(node, left, r) ==
    IF r.panic THEN r
    ELSE IF r.err # nilErr THEN RErr(ErrorObj(r.err), r.err, r.st)
    ELSE IF isError(r.obj) THEN RErr(r.obj, r.obj.Message, r.st)
    ELSE evalInfix(node.Operator, left, r.obj, r.st)

Eval_infix_left(node, env, l) ==
    IF l.panic THEN l
    ELSE IF l.err # nilErr THEN RErr(ErrorObj(l.err), l.err, l.st)
    ELSE IF isError(l.obj) THEN RErr(l.obj, l.obj.Message, l.st)
    ELSE Eval_infix_right(node, l.obj, Eval(node.Right, env, l.st))

Eval_return_val(r) ==
    IF r.panic THEN r
    ELSE IF r.err = nilErr
    THEN ROk(ReturnValueObj(r.obj, r.st.next), [r.st EXCEPT !.next = @ + 1])
    ELSE RErr(ErrorObj(r.err), r.err, r.st)

Eval_let_val(node, env, r) ==
    IF r.panic THEN r
    ELSE IF r.err = nilErr
    THEN ROk(r.obj, [r.st EXCEPT !.envs = EnvSet(@, env, node.Name.Value, r.obj)])
    ELSE ErrorPair(r.err, r.st)

Eval_call_args(function, a) ==
    IF a.panic THEN RPanic(a.st)
    ELSE IF a.err # nilErr THEN ErrorPair(a.err, a.st)
    ELSE IF Len(a.objs) = 1 /\ isError(a.objs[1]) THEN ROk(a.objs[1], a.st)
    ELSE applyFunction(function, a.objs, a.st)

Eval_call_function(node, env, f) ==
    IF f.panic \/ f.err # nilErr THEN f
    ELSE Eval_call_args(f.obj, evalExpressions(node.Arguments, env, f.st))

Eval_array_elements(a) ==
    IF a.panic THEN RPanic(a.st)
    ELSE IF Len(a.objs) = 1 /\ a.err # nilErr THEN RErr(a.objs[1], a.err, a.st)
    ELSE ROk(ArrayObj(a.objs, a.st.next),
             Log([a.st EXCEPT !.next = @ + 1],
                 [ev |-> "array", elements |-> a.objs]))

Eval_index_index(left, i) ==
    IF i.panic \/ i.err # nilErr THEN i
    ELSE evalIndexExpression(left, i.obj, i.st)

Eval_index_left(node, env, l) ==
    IF l.panic \/ l.err # nilErr THEN l
    ELSE Eval_index_index(l.obj, Eval(node.Index, env, l.st))

Eval(node, env, st) ==
    CASE node.Kind = "Program" -> evalProgram(node.Statements, env, st)
      [] node.Kind = "ExpressionStatement" -> Eval(node.Expression, env, st)
      [] node.Kind = "IntegerLiteral" -> ROk(IntegerObj(node.Value), st)
      [] node.Kind = "Boolean" -> ROk(NativeToBooleanObject(node.Value), st)
      [] node.Kind = "PrefixExpression" ->
            Eval_prefix_right(node, Eval(node.Right, env, st))
      [] node.Kind = "InfixExpression" ->
            Eval_infix_left(node, env, Eval(node.Left, env, st))
      [] node.Kind = "BlockStatement" -> evalBlock(node, env, st)
      [] node.Kind = "IfExpression" -> evalIfExpression(node, env, st)
      [] node.Kind = "ReturnStatement" ->
            Eval_return_val(Eval(node.ReturnValue, env, st))
      [] node.Kind = "LetStatement" ->
            Eval_let_val(node, env, Eval(node.Value, env, st))
      [] node.Kind = "Identifier" -> evalIdentifier(node, env, st)
      [] node.Kind = "FunctionLiteral" ->
            ROk(FunctionObj(node.Parameters, node.Body, env, st.next),
                [st EXCEPT !.next = @ + 1])
      [] node.Kind = "CallExpression" ->
            Eval_call_function(node, env, Eval(node.Function, env, st))
      [] node.Kind = "StringLiteral" ->
            ROk(StringObj(node.Value, st.next), [st EXCEPT !.next = @ + 1])
      [] node.Kind = "ArrayLiteral" ->
            Eval_array_elements(evalExpressions(node.Elements, env, st))
      [] node.Kind = "IndexExpression" ->
            Eval_index_left(node, env, Eval(node.Left, env, st))
      [] OTHER -> RErr(NULL, createEvalError("Unimplemented."), st)

(***************************************************************************)
(* The VM (src/unnamed/part_006, lines 1-175) and the instruction encoding *)
(* of package code (src/evaluator/evaluator.go, lines 33-215).  An opcode  *)
(* byte is written by its name, an operand byte by its value.  A VM value  *)
(* v holds the fields of the VM struct together with the position of Run:  *)
(* ip, the error Run returns, and state (running, done, failed, panicked). *)
(* stack is indexed from 0 as in the Go code; instructions and constants   *)
(* are sequences, so instructions[i] of the code is instructions[i + 1].   *)
(***************************************************************************)
STACKSIZE == 2048

\* the VM's own Boolean objects
True == [Type |-> "BOOLEAN", Value |-> TRUE, Addr |-> "vm.True"]
False == [Type |-> "BOOLEAN", Value |-> FALSE, Addr |-> "vm.False"]

nativeBoolToBooleanObject(input) == IF input THEN True ELSE False

\* the operand widths of the table definitions
OperandWidths(op) ==
    IF op \in {"OpConstant", "OpJumpNotTruthy", "OpJump", "OpArray", "OpHash",
               "OpGetGlobal", "OpSetGlobal"}
    THEN <<2>>
    ELSE IF op \in {"OpCall", "OpGetLocal", "OpSetLocal", "OpGetBuiltin"}
    THEN <<1>>
    ELSE <<>>

\* the opcodes the table definitions has an entry for
definitions ==
    {"OpConstant", "OpPop", "OpJumpNotTruthy", "OpJump", "OpCall", "OpReturn",
     "OpReturnValue", "OpTrue", "OpFalse", "OpNull", "OpArray", "OpHash",
     "OpEqual", "OpNotEqual", "OpGreaterThan", "OpMinus", "OpBang", "OpAdd",
     "OpSub", "OpMul", "OpDiv", "OpMod", "OpGetGlobal", "OpSetGlobal",
     "OpGetLocal", "OpSetLocal", "OpGetBuiltin", "OpIndex"}

\* the sum of the widths
RECURSIVE InstructionLen(_)
InstructionLen(widths) ==
    IF widths = <<>> THEN 0 ELSE Head(widths) + InstructionLen(Tail(widths))

\* binary.BigEndian.PutUint16(b[offset:], uint16(o))
PutUint16(b, offset, o) ==
    [b EXCEPT ![offset + 1] = (o % 65536) \div 256,
              ![offset + 2] = o % 256]

PutUint16_LittleEndian(b, offset, o) ==
    [b EXCEPT ![offset + 1] = o % 256,
              ![offset + 2] = (o % 65536) \div 256]

\* the loop of Make over the operands from the i-th on, for at most as many
\* operands as the opcode has widths; offset is not advanced
RECURSIVE Make_operands(_, _, _, _, _)
Make_operands(instruction, widths, operands, i, offset) ==
    IF i > Len(operands) THEN instruction
    ELSE IF widths[i] = 2
    THEN Make_operands(PutUint16(instruction, offset, operands[i]),
                       widths, operands, i + 1, offset)
    ELSE IF widths[i] = 1
    THEN Make_operands([instruction EXCEPT ![offset + 1] = operands[i] % 256],
                       widths, operands, i + 1, offset)
    ELSE Make_operands(instruction, widths, operands, i + 1, offset)

RECURSIVE Make_operands_LittleEndian(_, _, _, _, _)
Make_operands_LittleEndian(instruction, widths, operands, i, offset) ==
    IF i > Len(operands) THEN instruction
    ELSE IF widths[i] = 2
    THEN Make_operands_LittleEndian(
             PutUint16_LittleEndian(instruction, offset, operands[i]),
             widths, operands, i + 1, offset)
    ELSE IF widths[i] = 1
    THEN Make_operands_LittleEndian(
             [instruction EXCEPT ![offset + 1] = operands[i] % 256],
             widths, operands, i + 1, offset)
    ELSE Make_operands_LittleEndian(instruction, widths, operands, i + 1, offset)

Make_LittleEndian(op, operands) ==
    IF op \notin definitions THEN <<>>
    ELSE Make_operands_LittleEndian(
             [i \in 1..(1 + InstructionLen(OperandWidths(op))) |->
                 IF i = 1 THEN op ELSE 0],
             OperandWidths(op), operands, 1, 1)

\* code.Make
Make(op, operands) ==
    IF op \notin definitions THEN <<>>
    ELSE Make_operands([i \in 1..(1 + InstructionLen(OperandWidths(op))) |->
                           IF i = 1 THEN op ELSE 0],
                       OperandWidths(op), operands, 1, 1)

\* code.ReadUint16(ins[at:]), at counted from 0
ReadUint16(ins, at) == ins[at + 1] * 256 + ins[at + 2]

\* code.ReadUint8(ins[at:])
ReadUint8(ins, at) == ins[at + 1]

\* the loop of ReadOperands from the i-th width on
RECURSIVE ReadOperands_loop(_, _, _, _, _)
ReadOperands_loop(widths, ins, i, operands, offset) ==
    IF i > Len(widths) THEN [operands |-> operands, read |-> offset]
    ELSE IF widths[i] = 2
    THEN ReadOperands_loop(widths, ins, i + 1,
                           Append(operands, ReadUint16(ins, offset)),
                           offset + widths[i])
    ELSE IF widths[i] = 1
    THEN ReadOperands_loop(widths, ins, i + 1,
                           Append(operands, ReadUint8(ins, offset)),
                           offset + widths[i])
    ELSE ReadOperands_loop(widths, ins, i + 1, Append(operands, 0),
                           offset + widths[i])

\* code.ReadOperands for the definition of op: the operands and the number
\* of bytes read
ReadOperands(op, ins) == ReadOperands_loop(OperandWidths(op), ins, 1, <<>>, 0)

\* vm.New: the VM for a bytecode, Run not yet entered
NewVM(bytecode) ==
    [constants |-> bytecode.Constants,
     instructions |-> bytecode.Instructions,
     stack |-> [i \in 0..(STACKSIZE - 1) |-> NilObj],
     sp |-> 0,
     ip |-> 0, err |-> nilErr, state |-> "running"]

StackTop(v) == IF v.sp = 0 THEN NilObj ELSE v.stack[v.sp - 1]

LastPoppedStackElem(v) == v.stack[v.sp]

VOk(v) == [vm |-> v, err |-> nilErr, panic |-> FALSE]
VErr(v, err) == [vm |-> v, err |-> err, panic |-> FALSE]
VPanic(v) == [vm |-> v, err |-> nilErr, panic |-> TRUE]

\* push with the test sp > STACKSIZE
push_GreaterThan(v, o) ==
    IF v.sp > STACKSIZE
    THEN VErr(v, "stack overflow")
    ELSE VOk([v EXCEPT !.stack = [i \in DOMAIN v.stack \cup {v.sp} |->
                                    IF i = v.sp THEN o ELSE v.stack[i]],
                       !.sp = v.sp + 1])

push(v, o) ==
    IF v.sp >= STACKSIZE
    THEN VErr(v, "stack overflow")
    ELSE VOk([v EXCEPT !.stack[v.sp] = o, !.sp = v.sp + 1])

\* pop: the object, and the VM after it; stack[-1] panics
pop(v) ==
    IF v.sp - 1 < 0
    THEN [vm |-> v, o |-> NilObj, panic |-> TRUE]
    ELSE [vm |-> [v EXCEPT !.sp = v.sp - 1], o |-> v.stack[v.sp - 1], panic |-> FALSE]

executeBinaryIntegerOp(v, op, l, r) ==
    CASE op = "OpAdd" -> push(v, IntegerObj(l.Value + r.Value))
      [] op = "OpSub" -> push(v, IntegerObj(l.Value - r.Value))
      [] op = "OpMul" -> push(v, IntegerObj(l.Value * r.Value))
      [] op = "OpDiv" -> IF r.Value = 0 THEN VPanic(v)
                         ELSE push(v, IntegerObj(Quo(l.Value, r.Value)))
      [] op = "OpMod" -> IF r.Value = 0 THEN VPanic(v)
                         ELSE push(v, IntegerObj(Rem(l.Value, r.Value)))
      [] OTHER -> VErr(v, "unknown integer operator: " \o op)

\* executeBinOp once r and l have been popped
executeBinOp_l(op, r, pl) ==
    IF pl.panic \/ IsNil(pl.o) \/ IsNil(r) THEN VPanic(pl.vm)
    ELSE IF pl.o.Type = "INTEGER" /\ r.Type = "INTEGER"
    THEN executeBinaryIntegerOp(pl.vm, op, pl.o, r)
    ELSE VErr(pl.vm, "unsupported types for binary operation: " \o pl.o.Type
                     \o " " \o r.Type)

executeBinOp_r(op, pr) ==
    IF pr.panic THEN VPanic(pr.vm) ELSE executeBinOp_l(op, pr.o, pop(pr.vm))

executeBinOp(v, op) == executeBinOp_r(op, pop(v))

executeIntegerComparison(v, op, l, r) ==
    CASE op = "OpEqual" -> push(v, nativeBoolToBooleanObject(l.Value = r.Value))
      [] op = "OpNotEqual" -> push(v, nativeBoolToBooleanObject(l.Value # r.Value))
      [] op = "OpGreaterThan" -> push(v, nativeBoolToBooleanObject(l.Value > r.Value))
      [] OTHER -> VErr(v, "unknown integer operator: " \o op)

\* executeComparison once r and l have been popped
executeComparison_l(op, r, pl) ==
    IF pl.panic \/ IsNil(pl.o) THEN VPanic(pl.vm)
    ELSE IF pl.o.Type = "INTEGER" /\ IsNil(r) THEN VPanic(pl.vm)
    ELSE IF pl.o.Type = "INTEGER" /\ r.Type = "INTEGER"
    THEN executeIntegerComparison(pl.vm, op, pl.o, r)
    ELSE CASE op = "OpEqual" ->
                push(pl.vm, nativeBoolToBooleanObject(SameObject(r, pl.o)))
           [] op = "OpNotEqual" ->
                push(pl.vm, nativeBoolToBooleanObject(~SameObject(r, pl.o)))
           [] OTHER ->
                IF IsNil(r) THEN VPanic(pl.vm)
                ELSE VErr(pl.vm, "unknown operator: " \o op \o " (" \o pl.o.Type
                                 \o " " \o r.Type \o ")")

executeComparison_r(op, pr) ==
    IF pr.panic THEN VPanic(pr.vm) ELSE executeComparison_l(op, pr.o, pop(pr.vm))

executeComparison(v, op) == executeComparison_r(op, pop(v))

(***************************************************************************)
(* Symbol tables (src/compiler/symbol_table.go, lines 36-128).  h is the   *)
(* heap of SymbolTable objects, a sequence indexed by address; Outer = 0   *)
(* is the nil pointer.  A store is a function from the names it holds.     *)
(***************************************************************************)
GLOBALSCOPE == "GLOBAL"
LOCALSCOPE == "LOCAL"
BUILTINSCOPE == "BUILTIN"
FREESCOPE == "FREE"
FUNCTIONSCOPE == "FUNCTION"

Symbol(name, scope, index) == [Name |-> name, Scope |-> scope, Index |-> index]

\* the zero Symbol a failed map lookup gives
ZeroSymbol == Symbol("", "", 0)

NewSymbolTable(h) ==
    Append(h, [Outer |-> 0, store |-> <<>>, numDefinitions |-> 0,
               FreeSymbols |-> <<>>])

NewEnclosedSymbolTable(h, outer) ==
    Append(h, [Outer |-> outer, store |-> <<>>, numDefinitions |-> 0,
               FreeSymbols |-> <<>>])

\* s.store[name] = symbol
StoreSymbol(h, s, symbol) ==
    [h EXCEPT ![s].store =
        [n \in DOMAIN h[s].store \cup {symbol.Name} |->
            IF n = symbol.Name THEN symbol ELSE h[s].store[n]]]

\* Define: the heap after it; the symbol is store[name] of s in that heap
Define(h, s, name) ==
    [StoreSymbol(h, s, Symbol(name,
                              IF h[s].Outer = 0 THEN GLOBALSCOPE ELSE LOCALSCOPE,
                              h[s].numDefinitions))
        EXCEPT ![s].numDefinitions = h[s].numDefinitions + 1]

DefineBuiltin(h, s, index, name) ==
    StoreSymbol(h, s, Symbol(name, BUILTINSCOPE, index))

DefineFunctionName(h, s, name) ==
    StoreSymbol(h, s, Symbol(name, FUNCTIONSCOPE, 0))

\* defineFree with the Index taken as the length of FreeSymbols
defineFree_IndexIsLength(h, s, original) ==
    StoreSymbol([h EXCEPT ![s].FreeSymbols = Append(h[s].FreeSymbols, original)],
                s, Symbol(original.Name, FREESCOPE, Len(h[s].FreeSymbols) + 1))

defineFree_IndexIsZero(h, s, original) ==
    StoreSymbol([h EXCEPT ![s].FreeSymbols = Append(h[s].FreeSymbols, original)],
                s, Symbol(original.Name, FREESCOPE, 0))

\* defineFree: the heap after it; the symbol is store[original.Name] of s
defineFree(h, s, original) ==
    StoreSymbol([h EXCEPT ![s].FreeSymbols = Append(h[s].FreeSymbols, original)],
                s, Symbol(original.Name, FREESCOPE,
                          Len(Append(h[s].FreeSymbols, original)) - 1))

\* Resolve once s.Outer.Resolve(name) has returned r
Resolve_outer(s, name, r) ==
    IF ~r.ok THEN r
    ELSE IF r.obj.Scope = GLOBALSCOPE \/ r.obj.Scope = BUILTINSCOPE THEN r
    ELSE [obj |-> defineFree(r.h, s, r.obj)[s].store[name], ok |-> TRUE,
          h |-> defineFree(r.h, s, r.obj)]

\* Resolve: the symbol, whether it was found, and the heap after it
RECURSIVE Resolve(_, _, _)
Resolve(h, s, name) ==
    IF name \in DOMAIN h[s].store
    THEN [obj |-> h[s].store[name], ok |-> TRUE, h |-> h]
    ELSE IF h[s].Outer # 0
    THEN Resolve_outer(s, name, Resolve(h, h[s].Outer, name))
    ELSE [obj |-> ZeroSymbol, ok |-> FALSE, h |-> h]

(***************************************************************************)
(* Arrays as Go keeps them.  An Array object holds Elements, a slice: the  *)
(* address of a backing array, a length and a capacity.  m is the memory:  *)
(* backing (the backing arrays, indexed by address, each as long as its    *)
(* capacity) and objects (the Array objects, indexed by address).  The     *)
(* builtin push is src/object/builtins.go, lines 103-125; an array literal *)
(* is built by evalExpressions (src/evaluator/tree_walker.go, lines        *)
(* 299-311) with append, which doubles the capacity when it runs out.      *)
(***************************************************************************)
Slice(array, len, cap) == [array |-> array, len |-> len, cap |-> cap]

\* var result []object.Object
NilSlice == Slice(0, 0, 0)

\* the elements a slice shows
SliceElements(m, s) == [i \in 1..s.len |-> m.backing[s.array][i]]

\* make([]Object, n): the memory after it and the slice
make(m, n) ==
    [m |-> [m EXCEPT !.backing = Append(@, [i \in 1..n |-> NilObj])],
     s |-> Slice(Len(m.backing) + 1, n, n)]

\* copy(dst, src), for a dst at least as long as src
copy(m, dst, src) ==
    [m EXCEPT !.backing[dst.array] =
        [i \in 1..dst.cap |->
            IF i <= src.len THEN m.backing[src.array][i] ELSE @[i]]]

\* s[i] = x
SetIndex(m, s, i, x) == [m EXCEPT !.backing[s.array][i + 1] = x]

\* the capacity append grows a full slice to
GrownCap(s) == IF s.cap = 0 THEN s.len + 1 ELSE s.cap + s.cap

append_grown(s, x, r) ==
    [m |-> SetIndex(copy(r.m, [r.s EXCEPT !.len = s.len + 1], s),
                    r.s, s.len, x),
     s |-> Slice(r.s.array, s.len + 1, r.s.cap)]

\* append(s, x): the memory after it and the slice it returns
append(m, s, x) ==
    IF s.len < s.cap
    THEN [m |-> SetIndex(m, s, s.len, x), s |-> [s EXCEPT !.len = s.len + 1]]
    ELSE append_grown(s, x, make(m, GrownCap(s)))

\* &Array{Elements: elements}: the memory after it; the object is the last
NewArray(m, elements) ==
    [m EXCEPT !.objects = Append(@, [Elements |-> elements])]

\* evalExpressions on literals of the values vs, from result on
RECURSIVE evalElements(_, _, _)
evalElements(m, result, vs) ==
    IF vs = <<>> THEN [m |-> m, s |-> result]
    ELSE evalElements(append(m, result, IntegerObj(Head(vs))).m,
                      append(m, result, IntegerObj(Head(vs))).s, Tail(vs))

\* an array literal of the values vs
evalArrayLiteral(m, vs) ==
    NewArray(evalElements(m, NilSlice, vs).m, evalElements(m, NilSlice, vs).s)

pushArray_InPlace(m, a, x) ==
    [m |-> [append(m, m.objects[a].Elements, x).m
               EXCEPT !.objects[a].Elements =
                          append(m, m.objects[a].Elements, x).s],
     obj |-> a]

pushArray_filled(a, x, r) ==
    [m |-> NewArray(r, [array |-> Len(r.backing),
                        len |-> r.objects[a].Elements.len + 1,
                        cap |-> r.objects[a].Elements.len + 1]),
     obj |-> Len(r.objects) + 1]

pushArray_made(a, x, r) ==
    pushArray_filled(a, x,
        SetIndex(copy(r.m, r.s, r.m.objects[a].Elements),
                 r.s, r.m.objects[a].Elements.len, x))

\* the builtin push on the Array object a: the memory after it and the
\* object it returns
pushArray(m, a, x) == pushArray_made(a, x, make(m, m.objects[a].Elements.len + 1))

(***************************************************************************)
(* The lexer driven token by token                                         *)
(***************************************************************************)
\* the spelling of the words source texts are written with; any other piece
\* of a source text is a single character
Spell(w) ==
    CASE w = "fn" -> <<"f", "n">>
      [] w = "let" -> <<"l", "e", "t">>
      [] w = "if" -> <<"i", "f">>
      [] w = "else" -> <<"e", "l", "s", "e">>
      [] w = "return" -> <<"r", "e", "t", "u", "r", "n">>
      [] w = "true" -> <<"t", "r", "u", "e">>
      [] w = "false" -> <<"f", "a", "l", "s", "e">>
      [] w = "foo" -> <<"f", "o", "o">>
      [] w = "len" -> <<"l", "e", "n">>
      [] w = "first" -> <<"f", "i", "r", "s", "t">>
      [] w = "last" -> <<"l", "a", "s", "t">>
      [] w = "rest" -> <<"r", "e", "s", "t">>
      [] w = "push" -> <<"p", "u", "s", "h">>
      [] w = "newAdder" -> <<"n", "e", "w", "A", "d", "d", "e", "r">>
      [] w = "addTwo" -> <<"a", "d", "d", "T", "w", "o">>
      [] w = "42" -> <<"4", "2">>
      [] w = "10" -> <<"1", "0">>
      [] w = "20" -> <<"2", "0">>
      [] w = "<<" -> <<"<", "<">>
      [] w = ">>" -> <<">", ">">>
      [] w = "==" -> <<"=", "=">>
      [] w = "!=" -> <<"!", "=">>
      [] OTHER -> <<w>>

\* the source text written as the sequence of pieces ws
RECURSIVE Src(_)
Src(ws) == IF ws = <<>> THEN <<>> ELSE Spell(Head(ws)) \o Src(Tail(ws))

WordTexts ==
    {[kind |-> "FUNCTION", text |-> Spell("fn")],
     [kind |-> "LET", text |-> Spell("let")],
     [kind |-> "IF", text |-> Spell("if")],
     [kind |-> "ELSE", text |-> Spell("else")],
     [kind |-> "RETURN", text |-> Spell("return")],
     [kind |-> "TRUE", text |-> Spell("true")],
     [kind |-> "FALSE", text |-> Spell("false")],
     [kind |-> "BANG", text |-> <<"!">>],
     [kind |-> "IDENT", text |-> Spell("foo")],
     [kind |-> "INT", text |-> Spell("42")],
     [kind |-> "STRING", text |-> <<QUOTE, "h", "i", QUOTE>>],
     [kind |-> "ILLEGAL", text |-> <<"@">>]}

\* every token kind with the source text that is its canonical literal
CanonicalTexts ==
    {[kind |-> singleCharMatch[c], text |-> <<c>>] : c \in DOMAIN singleCharMatch}
    \cup {[kind |-> doubleCharMatch[p], text |-> p] : p \in DOMAIN doubleCharMatch}
    \cup WordTexts

\* operands that begin with a letter, and the prefix operator in front of them
BangOperands == {Spell("true"), Spell("false"), <<"x">>, <<"y">>, Spell("foo")}

RECURSIVE Bangs(_)
Bangs(k) == IF k = 0 THEN <<>> ELSE <<"!">> \o Bangs(k - 1)

BangTexts == {Bangs(k) \o w : k \in 1..MaxBangs, w \in BangOperands}

OtherTexts ==
    {<<>>, <<" ">>, <<"1", " ", "@", " ", "2">>, <<"!", "5">>, <<"!", " ", "x">>,
     <<"a", "!", "=", "b">>, <<QUOTE, "a">>, <<"x", "?", " ", "\t", "7">>}

LexSources == {c.text : c \in CanonicalTexts} \cup BangTexts \cup OtherTexts

\* the REPL loop before it is started
NoResult == [obj |-> NilObj, err |-> nilErr, panic |-> FALSE]

ReplIdle ==
    /\ pc = "idle"
    /\ lines = 0
    /\ line = <<>>
    /\ program = NilNode
    /\ perr = nilErr
    /\ evaluated = NoResult
    /\ nextAddr = 1
    /\ trace = <<>>

LexIdle == [input |-> <<>>, position |-> 0, readPosition |-> 1, ch |-> NUL]
EnvIdle == [op |-> "none"]

\* no VM, no symbol table and no array under test
MachineIdle ==
    /\ vm = [m |-> [state |-> "none", sp |-> 0], expr |-> [kind |-> "none"]]
    /\ sym = [tables |-> <<>>]
    /\ arr = [op |-> "none"]
    /\ code = [step |-> "none"]

InitLex ==
    /\ \E src \in LexSources : lex = NewLexer(src)
    /\ emitted = <<>>
    /\ envs = <<>>
    /\ last = EnvIdle
    /\ ReplIdle
    /\ MachineIdle

LexNextToken ==
    /\ Len(emitted) < MaxTokens
    /\ LET r == NextToken(lex)
       IN  /\ lex' = r.l
           /\ emitted' = Append(emitted, r.tok)
    /\ UNCHANGED <<envVars, replVars, machineVars>>

NextLex == LexNextToken

SpecLex == InitLex /\ [][NextLex]_<<lexVars, envVars, replVars, machineVars>>

(***************************************************************************)
(* Environments driven call by call                                        *)
(***************************************************************************)
Names == {<<"a">>, <<"b">>}
Values == {IntegerObj(1), IntegerObj(2)}

InitEnv ==
    /\ envs = NewEnvironemnt(<<>>)
    /\ last = EnvIdle
    /\ lex = LexIdle
    /\ emitted = <<>>
    /\ ReplIdle
    /\ MachineIdle

EnvNewEnclosed ==
    /\ Len(envs) < MaxEnvs
    /\ \E outer \in 1..Len(envs) :
        /\ envs' = NewEnclosedEnvironment(envs, outer)
        /\ last' = [op |-> "NewEnclosed", env |-> outer, before |-> envs]
    /\ UNCHANGED <<lexVars, replVars, machineVars>>

EnvSetCall ==
    /\ \E e \in 1..Len(envs), name \in Names, v \in Values :
        /\ envs' = EnvSet(envs, e, name, v)
        /\ last' = [op |-> "Set", env |-> e, name |-> name, value |-> v,
                    before |-> envs]
    /\ UNCHANGED <<lexVars, replVars, machineVars>>

EnvGetCall ==
    /\ \E e \in 1..Len(envs), name \in Names :
        LET r == EnvGet(envs, e, name)
        IN  /\ last' = [op |-> "Get", env |-> e, name |-> name,
                        obj |-> r.obj, ok |-> r.ok, before |-> envs]
            /\ UNCHANGED envs
    /\ UNCHANGED <<lexVars, replVars, machineVars>>

NextEnv == EnvNewEnclosed \/ EnvSetCall \/ EnvGetCall

SpecEnv == InitEnv /\ [][NextEnv]_<<lexVars, envVars, replVars, machineVars>>

(***************************************************************************)
(* The REPL loop (Start in src/unnamed/part_003): one Environment for the  *)
(* session; each line scanned is lexed, parsed and, when it parses,        *)
(* evaluated by the tree walker, and the result or the error is written.   *)
(***************************************************************************)
\* strings.Trim(line, " ")
RECURSIVE TrimLeft(_)
TrimLeft(s) == IF s # <<>> /\ Head(s) = " " THEN TrimLeft(Tail(s)) ELSE s

RECURSIVE TrimRight(_)
TrimRight(s) ==
    IF s # <<>> /\ s[Len(s)] = " " THEN TrimRight(SubSeq(s, 1, Len(s) - 1)) ELSE s

Trim(s) == TrimRight(TrimLeft(s))

QuitText == <<"q", "u", "i", "t">>

\* statements that are a single token, and what may stand between two of them
C1Statements == {<<"1">>, Spell("foo")}
C1Separators == {<<" ">>, <<";">>, <<";", " ">>}

\* two statements in source order, the first optionally followed by `;`
StatementRuns ==
    {[first |-> a, second |-> b, text |-> a \o s \o b] :
        a \in C1Statements, b \in C1Statements, s \in C1Separators}

\* conditions with the value `if (c) { 10 } else { 20 }` has for them
Conditions ==
    {[cond |-> <<"1", " ", "<", " ", "2">>, value |-> 10],
     [cond |-> <<"1", " ", ">", " ", "2">>, value |-> 20],
     [cond |-> Spell("true"), value |-> 10],
     [cond |-> Spell("false"), value |-> 20]}

\* if expressions whose blocks end without a semicolon
IfElseTexts ==
    {[value |-> c.value,
      text |-> Src(<<"if", " ", "(">>) \o c.cond
               \o Src(<<")", " ", "{", " ", "10", " ", "}", " ", "else", " ",
                        "{", " ", "20", " ", "}">>)] : c \in Conditions}

ClosureText ==
    Src(<<"let", " ", "newAdder", " ", "=", " ", "fn", "(", "x", ")", " ",
          "{", " ", "fn", "(", "y", ")", " ", "{", " ", "x", " ", "+", " ",
          "y", " ", "}", " ", "}", ";", " ", "let", " ", "addTwo", " ", "=",
          " ", "newAdder", "(", "2", ")", ";", " ", "addTwo", "(", "3", ")">>)

\* the binary operators the parser has an infix rule and a precedence for,
\* call and index left out
BinaryOperators ==
    {<<"=", "=">>, <<"!", "=">>, <<"<">>, <<">">>, <<"+">>, <<"-">>, <<"*">>,
     <<"/">>, <<"%">>, <<"|">>, <<"&">>, <<"^">>, <<"<", "<">>, <<">", ">">>}

PrefixOperators == {<<"-">>, <<"!">>}

\* `-a op b` and `!a op b`
PrefixTexts ==
    {[prefix |-> p, op |-> o, text |-> p \o <<"a", " ">> \o o \o <<" ", "b">>] :
        p \in PrefixOperators, o \in BinaryOperators}

\* programs with a return statement inside nested blocks
ReturnTexts ==
    {Src(<<"if", " ", "(", "true", ")", " ", "{", " ", "if", " ", "(",
           "true", ")", " ", "{", " ", "return", " ", "1", ";", " ", "}",
           ";", " ", "2", ";", " ", "}", ";", " ", "3", ";">>),
     Src(<<"let", " ", "a", " ", "=", " ", "fn", "(", ")", " ", "{", " ",
           "if", " ", "(", "true", ")", " ", "{", " ", "return", " ", "1",
           ";", " ", "}", ";", " ", "2", ";", " ", "}", ";", " ", "a", "(",
           ")", " ", "+", " ", "5", ";">>),
     Src(<<"[", "if", " ", "(", "true", ")", " ", "{", " ", "return", " ",
           "1", ";", " ", "}", "]", ";", " ", "let", " ", "b", " ", "=", " ",
           "3", ";", " ", "b", ";">>),
     Src(<<"return", " ", "if", " ", "(", "true", ")", " ", "{", " ",
           "return", " ", "1", ";", " ", "}", ";">>),
     Src(<<"fn", "(", ")", " ", "{", " ", "return", " ", "if", " ", "(",
           "true", ")", " ", "{", " ", "return", " ", "1", ";", " ", "}",
           ";", " ", "}", "(", ")", ";">>),
     Src(<<"if", " ", "(", "if", " ", "(", "true", ")", " ", "{", " ",
           "return", " ", "false", ";", " ", "}", ")", " ", "{", " ", "1",
           ";", " ", "}", ";", " ", "2", ";">>)}

\* programs with a statement that evaluates to an Error
ErrorTexts ==
    {Src(<<"len", "(", "1", ")", ";", " ", "let", " ", "a", " ", "=", " ",
           "2", ";">>),
     Src(<<"foo", ";", " ", "let", " ", "a", " ", "=", " ", "2", ";">>),
     Src(<<"let", " ", "a", " ", "=", " ", "foo", ";", " ", "let", " ", "b",
           " ", "=", " ", "2", ";">>),
     Src(<<"1", ";", " ", "-", "true", ";", " ", "let", " ", "a", " ", "=",
           " ", "2", ";">>),
     Src(<<"if", " ", "(", "true", ")", " ", "{", " ", "len", "(", "1", ")",
           ";", " ", "let", " ", "a", " ", "=", " ", "2", ";", " ", "}", ";",
           " ", "let", " ", "b", " ", "=", " ", "2", ";">>),
     Src(<<"if", " ", "(", "true", ")", " ", "{", " ", "foo", ";", " ",
           "let", " ", "a", " ", "=", " ", "2", ";", " ", "}", ";", " ",
           "let", " ", "b", " ", "=", " ", "2", ";">>),
     Src(<<"fn", "(", ")", " ", "{", " ", "len", "(", "1", ")", ";", " ",
           "let", " ", "a", " ", "=", " ", "2", ";", " ", "}", "(", ")", ";",
           " ", "let", " ", "b", " ", "=", " ", "2", ";">>)}

\* array literals and calls with an Error in their expression list
ListTexts ==
    {Src(<<"[", "len", "(", "1", ")", "]">>),
     Src(<<"[", "1", ",", " ", "len", "(", "1", ")", "]">>),
     Src(<<"[", "foo", "]">>),
     Src(<<"[", "1", ",", " ", "foo", "]">>),
     Src(<<"len", "(", "foo", ")">>),
     Src(<<"len", "(", "1", ",", " ", "foo", ")">>),
     Src(<<"len", "(", "len", "(", "1", ")", ")">>),
     Src(<<"fn", "(", "a", ",", " ", "b", ")", " ", "{", " ", "5", ";", " ",
           "}", "(", "1", ",", " ", "len", "(", "1", ")", ")">>),
     Src(<<"fn", "(", "a", ")", " ", "{", " ", "5", ";", " ", "}", "(",
           "len", "(", "1", ")", ")">>),
     Src(<<"[", "1", ",", " ", "2", "]">>),
     Src(<<"len", "(", "[", "1", ",", " ", "2", "]", ")">>)}

\* further lines
MoreTexts ==
    {Src(<<>>),
     Src(<<"q", "u", "i", "t">>),
     Src(<<" ", "q", "u", "i", "t", " ">>),
     Src(<<"1", ";", " ", "2">>),
     Src(<<"if", " ", "(", "1", " ", "<", " ", "2", ")", " ", "{", " ", "10",
           ";", " ", "}", " ", "else", " ", "{", " ", "20", ";", " ", "}">>),
     Src(<<"let", " ", "newAdder", " ", "=", " ", "fn", "(", "x", ")", " ",
           "{", " ", "fn", "(", "y", ")", " ", "{", " ", "x", " ", "+", " ",
           "y", ";", " ", "}", ";", " ", "}", ";", " ", "let", " ", "addTwo",
           " ", "=", " ", "newAdder", "(", "2", ")", ";", " ", "addTwo", "(",
           "3", ")", ";">>),
     Src(<<"1", " ", "/", " ", "0">>),
     Src(<<"@">>),
     Src(<<"let", " ", "a", " ", "=", " ", "1", ";">>),
     Src(<<"a">>),
     Src(<<"-", "1", " ", "|", " ", "2">>),
     Src(<<"!", "5">>),
     Src(<<"!", "true">>),
     Src(<<"\"", "h", "i", "\"", " ", "+", " ", "\"", "h", "i", "\"">>),
     Src(<<"[", "1", ",", " ", "2", "]", "[", "1", "]">>),
     Src(<<"[", "1", "]", " ", "<<", " ", "2">>)}

\* the lines the session may read
Sources ==
    {t.text : t \in StatementRuns} \cup {t.text : t \in IfElseTexts}
    \cup {ClosureText} \cup {t.text : t \in PrefixTexts}
    \cup ReturnTexts \cup ErrorTexts \cup ListTexts \cup MoreTexts

Init ==
    /\ envs = NewEnvironemnt(<<>>)
    /\ pc = "prompt"
    /\ lines = 0
    /\ line = <<>>
    /\ program = NilNode
    /\ perr = nilErr
    /\ evaluated = NoResult
    /\ nextAddr = 1
    /\ trace = <<>>
    /\ lex = LexIdle
    /\ emitted = <<>>
    /\ last = EnvIdle
    /\ MachineIdle

\* scanner.Scan() reads a line
Scan ==
    /\ pc = "prompt"
    /\ lines < MaxLines
    /\ \E src \in Sources : line' = src
    /\ lines' = lines + 1
    /\ pc' = "scanned"
    /\ UNCHANGED <<program, perr, evaluated, nextAddr, trace, lexVars, envVars, machineVars>>

\* scanner.Scan() reports the end of the input
EndOfInput ==
    /\ pc = "prompt"
    /\ pc' = "done"
    /\ UNCHANGED <<lines, line, program, perr, evaluated, nextAddr, trace, lexVars, envVars, machineVars>>

\* the line is the command quit
Quit ==
    /\ pc = "scanned"
    /\ Trim(line) = QuitText
    /\ pc' = "done"
    /\ UNCHANGED <<lines, line, program, perr, evaluated, nextAddr, trace, lexVars, envVars, machineVars>>

\* lexer.New, parser.New and ParseProgram
Parse ==
    /\ pc = "scanned"
    /\ Trim(line) # QuitText
    /\ LET r == ParseProgram(NewParser(NewLexer(line)))
       IN  /\ program' = r.node
           /\ perr' = r.err
           /\ lex' = r.p.l
    /\ pc' = "parsed"
    /\ UNCHANGED <<lines, line, evaluated, nextAddr, trace, emitted, envVars, machineVars>>

\* t.Eval(res, env) on the session's Environment; a panic ends the process
Evaluate ==
    /\ pc = "parsed"
    /\ perr = nilErr
    /\ LET r == Eval(program, 1, [envs |-> envs, next |-> nextAddr, trace |-> <<>>,
                                  stack |-> <<>>, acts |-> 0, body |-> FALSE])
       IN  /\ evaluated' = [obj |-> r.obj, err |-> r.err, panic |-> r.panic]
           /\ envs' = r.st.envs
           /\ nextAddr' = r.st.next
           /\ trace' = r.st.trace
           /\ pc' = IF r.panic THEN "crashed" ELSE "evaluated"
    /\ UNCHANGED <<lines, line, program, perr, lexVars, last, machineVars>>

\* io.WriteString of eval.Inspect() or of the error; Inspect on a nil result
\* panics
WriteString ==
    /\ \/ pc = "parsed" /\ perr # nilErr
       \/ pc = "evaluated"
    /\ pc' = IF pc = "evaluated" /\ evaluated.err = nilErr /\ IsNil(evaluated.obj)
             THEN "crashed" ELSE "prompt"
    /\ UNCHANGED <<lines, line, program, perr, evaluated, nextAddr, trace, lexVars, envVars, machineVars>>

Next == Scan \/ EndOfInput \/ Quit \/ Parse \/ Evaluate \/ WriteString

vars == <<lexVars, envVars, replVars, machineVars>>

Spec == Init /\ [][Next]_vars

(***************************************************************************)
(* One line: the REPL loop from the point where it has scanned its first   *)
(* line, the line being drawn from the tables below.                       *)
(***************************************************************************)
\* an operand of every kind an expression can evaluate to, written so that
\* it can stand behind a prefix operator; falsy tells whether it is FALSE or
\* NULL
Operands ==
    {[kind |-> "INTEGER", falsy |-> FALSE, text |-> <<"5">>],
     [kind |-> "BOOLEAN", falsy |-> FALSE, text |-> Src(<<"(", "true", ")">>)],
     [kind |-> "BOOLEAN", falsy |-> TRUE, text |-> Src(<<"(", "false", ")">>)],
     [kind |-> "STRING", falsy |-> FALSE, text |-> <<QUOTE, "a", QUOTE>>],
     [kind |-> "ARRAY", falsy |-> FALSE, text |-> <<"[", "1", "]">>],
     [kind |-> "FUNCTION", falsy |-> FALSE,
      text |-> Src(<<"(", "fn", "(", "x", ")", " ", "{", " ", "x", ";", " ",
                     "}", ")">>)],
     [kind |-> "BUILTIN", falsy |-> FALSE, text |-> Src(<<"(", "len", ")">>)],
     [kind |-> "NULL", falsy |-> TRUE,
      text |-> Src(<<"(", "if", " ", "(", "false", ")", " ", "{", " ", "1",
                     ";", " ", "}", ")">>)]}

EqualityOperators == {<<"=", "=">>, <<"!", "=">>}

\* `l op r` for operands of different kinds and every operator but == and !=
MismatchTexts ==
    {[l |-> t[1], op |-> t[2], r |-> t[3],
      text |-> t[1].text \o <<" ">> \o t[2] \o <<" ">> \o t[3].text] :
        t \in {u \in Operands \X (BinaryOperators \ EqualityOperators) \X Operands :
                u[1].kind # u[3].kind}}

\* left operands that evaluate to an Error, with its message: an unknown
\* identifier, a builtin's Error, a prefix operator's Error
FailingOperands ==
    {[text |-> Spell("foo"), message |-> "identifier not found: foo"],
     [text |-> Src(<<"len", "(", "1", ")">>),
      message |-> "argument to " \o TICK \o "len" \o TICK \o " not supported, got INTEGER"],
     [text |-> Src(<<"(", "-", "true", ")">>),
      message |-> "cannot apply - operator to BOOLEAN"]}

\* a right operand whose evaluation would show in the trace: a call with a
\* String argument
ObservedOperand == Src(<<"len", "(", QUOTE, "a", QUOTE, ")">>)

\* `l op r` where l evaluates to an Error
GuardTexts ==
    {[l |-> t[1], op |-> t[2],
      text |-> t[1].text \o <<" ">> \o t[2] \o <<" ">> \o ObservedOperand] :
        t \in FailingOperands \X BinaryOperators}

\* `!x` and `-x` for an operand of every kind
NotTexts == {[operand |-> o, text |-> <<"!">> \o o.text] : o \in Operands}
NegTexts == {[operand |-> o, text |-> <<"-">> \o o.text] : o \in Operands}

\* array literals, with the values of their elements
ArrayTexts ==
    {[elems |-> <<>>, text |-> <<"[", "]">>],
     [elems |-> <<5>>, text |-> <<"[", "5", "]">>],
     [elems |-> <<5, 2>>, text |-> <<"[", "5", ",", " ", "2", "]">>]}

\* `first(a)`, `last(a)` and `rest(a)` for every array literal a
AccessTexts ==
    {[fn |-> t[1], a |-> t[2],
      text |-> Spell(t[1]) \o <<"(">> \o t[2].text \o <<")">>] :
        t \in {"first", "last", "rest"} \X ArrayTexts}

\* `a op1 b op2 c` for every two binary operators, with and without a `;`
\* behind it
ChainTexts ==
    {[op1 |-> t[1], op2 |-> t[2],
      text |-> <<"a", " ">> \o t[1] \o <<" ", "b", " ">> \o t[2]
               \o <<" ", "c">> \o t[3]] :
        t \in BinaryOperators \X BinaryOperators \X {<<>>, <<";">>}}

\* `a op1 b(c)` and `a op1 b[c]`
PostfixTexts ==
    {[op1 |-> t[1], open |-> t[2][1],
      text |-> <<"a", " ">> \o t[1] \o <<" ", "b", t[2][1], "c", t[2][2]>>] :
        t \in BinaryOperators \X {<<"(", ")">>, <<"[", "]">>}}

\* `a op1 b; c`
StopTexts ==
    {[op1 |-> op, text |-> <<"a", " ">> \o op \o <<" ", "b", ";", " ", "c">>] :
        op \in BinaryOperators}

\* parameter lists and argument lists, with how many names or values they hold
ParameterTexts ==
    {[n |-> 0, text |-> <<>>], [n |-> 1, text |-> <<"a">>],
     [n |-> 2, text |-> <<"a", ",", " ", "b">>]}

ArgumentTexts ==
    {[n |-> 0, text |-> <<>>], [n |-> 1, text |-> <<"1">>],
     [n |-> 2, text |-> <<"1", ",", " ", "2">>],
     [n |-> 3, text |-> <<"1", ",", " ", "2", ",", " ", "3">>]}

\* `fn(params) { 7; }(args)` for every parameter list and argument list
ArityTexts ==
    {[params |-> t[1].n, args |-> t[2].n,
      text |-> Src(<<"fn", "(">>) \o t[1].text
               \o <<")", " ", "{", " ", "7", ";", " ", "}", "(">>
               \o t[2].text \o <<")">>] :
        t \in ParameterTexts \X ArgumentTexts}

\* digit runs of one to three digits
DigitRuns ==
    {<<a>> : a \in {"0", "1", "7", "9"}}
    \cup {<<a, b>> : a, b \in {"0", "1", "7", "9"}}
    \cup {<<a, b, c>> : a, b, c \in {"0", "1", "7", "9"}}

\* the empty line, an if expression with an empty block, a call of a
\* function with an empty body
EmptyTexts ==
    {<<>>,
     Src(<<"if", " ", "(", "true", ")", " ", "{", " ", "}">>),
     Src(<<"fn", "(", ")", " ", "{", " ", "}", "(", ")">>)}

\* `7 / 0`, `7 % 0`, `7 << -1` and `7 >> -1`
ZeroTexts ==
    {<<"7", " ">> \o t[1] \o <<" ">> \o t[2] :
        t \in {<<<<"/">>, <<"0">>>>, <<<<"%">>, <<"0">>>>,
               <<<<"<", "<">>, <<"-", "1">>>>, <<<<">", ">">>, <<"-", "1">>>>}}

\* `let a = e;` for a right-hand side e that evaluates to an Error, through
\* Eval's error or as a builtin's Error object; alone, and behind `let a = 5;`
LetErrorTexts ==
    {[bound |-> t[1], builtin |-> t[2],
      text |-> (IF t[1]
                THEN Src(<<"let", " ", "a", " ", "=", " ", "5", ";", " ">>)
                ELSE <<>>)
               \o Src(<<"let", " ", "a", " ", "=", " ">>)
               \o (IF t[2] THEN Src(<<"len", "(", "1", ")">>) ELSE Spell("foo"))
               \o <<";">>] :
        t \in BOOLEAN \X BOOLEAN}

LineTexts ==
    {t.text : t \in MismatchTexts} \cup {t.text : t \in GuardTexts}
    \cup {t.text : t \in NotTexts} \cup {t.text : t \in NegTexts}
    \cup {t.text : t \in AccessTexts}
    \cup {t.text : t \in ChainTexts} \cup {t.text : t \in StopTexts}
    \cup {t.text : t \in PostfixTexts}
    \cup {t.text : t \in ArityTexts}
    \cup DigitRuns
    \cup EmptyTexts
    \cup ZeroTexts
    \cup {t.text : t \in LetErrorTexts}

InitLine ==
    /\ envs = NewEnvironemnt(<<>>)
    /\ pc = "scanned"
    /\ lines = 1
    /\ line \in LineTexts
    /\ program = NilNode
    /\ perr = nilErr
    /\ evaluated = NoResult
    /\ nextAddr = 1
    /\ trace = <<>>
    /\ lex = LexIdle
    /\ emitted = <<>>
    /\ last = EnvIdle
    /\ MachineIdle

NextLine == Parse \/ Evaluate \/ WriteString

SpecLine == InitLine /\ [][NextLine]_vars

(***************************************************************************)
(* The VM driven instruction by instruction: every action is one turn of   *)
(* the loop of Run.  The bytecode is drawn from the programs below; expr   *)
(* records what a program was written for.                                 *)
(***************************************************************************)
\* the constants of every program
VMPool ==
    <<IntegerObj(-7), IntegerObj(2), IntegerObj(0),
      StringObj(<<"a">>, 1), StringObj(<<"b">>, 2)>>

\* an operand: a constant by its index, or a boolean literal
VMOperands ==
    {[kind |-> "OpConstant", index |-> i] : i \in 0..(Len(VMPool) - 1)}
    \cup {[kind |-> "OpTrue", index |-> 0], [kind |-> "OpFalse", index |-> 0]}

VMOperators ==
    {"OpAdd", "OpSub", "OpMul", "OpDiv", "OpMod", "OpEqual", "OpNotEqual",
     "OpGreaterThan"}

\* the instructions that load an operand
Load(o) ==
    IF o.kind = "OpConstant" THEN Make(o.kind, <<o.index>>)
    ELSE Make(o.kind, <<>>)

\* l and r pushed in this order, the operator, and the pop that ends an
\* expression statement
BinaryPrograms ==
    {[Constants |-> VMPool,
      Instructions |-> Load(t[1]) \o Load(t[3]) \o Make(t[2], <<>>)
                       \o Make("OpPop", <<>>),
      expr |-> [kind |-> "binary", l |-> t[1], op |-> t[2], r |-> t[3]]] :
        t \in VMOperands \X VMOperators \X VMOperands}

\* n instructions that push: all OpTrue, all OpFalse, or all OpConstant 1
Pushes(kind, n) ==
    IF kind = "OpConstant"
    THEN [i \in 1..(3 * n) |-> IF i % 3 = 1 THEN "OpConstant"
                               ELSE IF i % 3 = 2 THEN 0 ELSE 1]
    ELSE [i \in 1..n |-> kind]

PushPrograms ==
    {[Constants |-> VMPool,
      Instructions |-> Pushes(k, n),
      expr |-> [kind |-> "pushes", l |-> k, op |-> k, r |-> k]] :
        k \in {"OpConstant", "OpTrue", "OpFalse"},
        n \in (STACKSIZE - 1)..(STACKSIZE + MaxExcess)}

\* an opcode Run has no case for, then a pop of the empty stack
OtherPrograms ==
    {[Constants |-> VMPool,
      Instructions |-> Make("OpNull", <<>>) \o Make("OpPop", <<>>),
      expr |-> [kind |-> "other", l |-> "OpNull", op |-> "OpNull", r |-> "OpNull"]]}

Bytecodes == BinaryPrograms \cup PushPrograms \cup OtherPrograms

\* the VM of a program of pushes when the loop of Run has made n turns: n
\* objects on the stack and ip behind the n-th instruction
AfterPushes(b, n) ==
    [NewVM(b) EXCEPT
        !.stack = [i \in 0..(STACKSIZE - 1) |->
                    IF i >= n THEN NilObj
                    ELSE IF b.expr.op = "OpConstant" THEN b.Constants[2]
                    ELSE IF b.expr.op = "OpTrue" THEN True
                    ELSE False],
        !.sp = n,
        !.ip = Len(Pushes(b.expr.op, n))]

\* Run is entered on a program, or is one push short of a full stack in a
\* program of pushes
InitVM ==
    /\ \/ \E b \in Bytecodes :
            vm = [m |-> NewVM(b), expr |-> b.expr]
       \/ \E b \in PushPrograms :
            vm = [m |-> AfterPushes(b, STACKSIZE - 1), expr |-> b.expr]
    /\ sym = [tables |-> <<>>]
    /\ arr = [op |-> "none"]
    /\ code = [step |-> "none"]
    /\ lex = LexIdle
    /\ emitted = <<>>
    /\ envs = <<>>
    /\ last = EnvIdle
    /\ ReplIdle

\* the opcode the loop of Run is at
Fetch == vm.m.instructions[vm.m.ip + 1]

InLoop == vm.m.state = "running" /\ vm.m.ip < Len(vm.m.instructions)

\* the end of a turn of the loop: a panic ends the process, an error makes
\* Run return it, otherwise ip++
Turn(r) ==
    IF r.panic THEN [r.vm EXCEPT !.state = "panicked"]
    ELSE IF r.err # nilErr THEN [r.vm EXCEPT !.state = "failed", !.err = r.err]
    ELSE [r.vm EXCEPT !.ip = r.vm.ip + 1]

Others == <<lexVars, envVars, replVars, sym, arr, code>>

ExecConstant ==
    /\ InLoop
    /\ Fetch = "OpConstant"
    /\ LET constIndex == ReadUint16(vm.m.instructions, vm.m.ip + 1)
           v == [vm.m EXCEPT !.ip = vm.m.ip + 2]
       IN  vm' = [vm EXCEPT !.m =
                    IF constIndex >= Len(v.constants) THEN Turn(VPanic(v))
                    ELSE Turn(push(v, v.constants[constIndex + 1]))]
    /\ UNCHANGED Others

ExecBinOp ==
    /\ InLoop
    /\ Fetch \in {"OpAdd", "OpSub", "OpMul", "OpDiv", "OpMod"}
    /\ vm' = [vm EXCEPT !.m = Turn(executeBinOp(vm.m, Fetch))]
    /\ UNCHANGED Others

ExecPop ==
    /\ InLoop
    /\ Fetch = "OpPop"
    /\ vm' = [vm EXCEPT !.m = Turn([vm |-> pop(vm.m).vm, err |-> nilErr,
                                    panic |-> pop(vm.m).panic])]
    /\ UNCHANGED Others

ExecTrue ==
    /\ InLoop
    /\ Fetch = "OpTrue"
    /\ vm' = [vm EXCEPT !.m = Turn(push(vm.m, True))]
    /\ UNCHANGED Others

ExecFalse ==
    /\ InLoop
    /\ Fetch = "OpFalse"
    /\ vm' = [vm EXCEPT !.m = Turn(push(vm.m, False))]
    /\ UNCHANGED Others

ExecComparison ==
    /\ InLoop
    /\ Fetch \in {"OpEqual", "OpNotEqual", "OpGreaterThan"}
    /\ vm' = [vm EXCEPT !.m = Turn(executeComparison(vm.m, Fetch))]
    /\ UNCHANGED Others

\* an opcode the switch of Run has no case for
ExecOther ==
    /\ InLoop
    /\ Fetch \notin {"OpConstant", "OpAdd", "OpSub", "OpMul", "OpDiv", "OpMod",
                     "OpPop", "OpTrue", "OpFalse", "OpEqual", "OpNotEqual",
                     "OpGreaterThan"}
    /\ vm' = [vm EXCEPT !.m = Turn(VOk(vm.m))]
    /\ UNCHANGED Others

\* the loop ends and Run returns nil
RunReturn ==
    /\ vm.m.state = "running"
    /\ vm.m.ip >= Len(vm.m.instructions)
    /\ vm' = [vm EXCEPT !.m.state = "done"]
    /\ UNCHANGED Others

NextVM ==
    \/ ExecConstant \/ ExecBinOp \/ ExecPop \/ ExecTrue \/ ExecFalse
    \/ ExecComparison \/ ExecOther \/ RunReturn

SpecVM == InitVM /\ [][NextVM]_vars

(***************************************************************************)
(* Symbol tables driven call by call, as a compiler that enters function   *)
(* scopes uses them: the builtins are recorded in the outermost table      *)
(* before anything else, every new table encloses the newest one and may   *)
(* first be given the function's own name, and names are defined in and    *)
(* resolved from any table.  sym holds the heap of tables.                 *)
(***************************************************************************)
SymbolNames == {"a", "b"}

InitSym ==
    /\ sym = [tables |-> NewSymbolTable(<<>>)]
    /\ vm = [m |-> [state |-> "none", sp |-> 0], expr |-> [kind |-> "none"]]
    /\ arr = [op |-> "none"]
    /\ code = [step |-> "none"]
    /\ lex = LexIdle
    /\ emitted = <<>>
    /\ envs = <<>>
    /\ last = EnvIdle
    /\ ReplIdle

NotSym == <<lexVars, envVars, replVars, vm, arr, code>>

\* the newest table
Current == Len(sym.tables)

SymNewEnclosed ==
    /\ Len(sym.tables) < MaxTables
    /\ sym' = [tables |-> NewEnclosedSymbolTable(sym.tables, Current)]
    /\ UNCHANGED NotSym

\* how many definitions the tables hold together
RECURSIVE Definitions(_)
Definitions(h) ==
    IF h = <<>> THEN 0 ELSE h[1].numDefinitions + Definitions(Tail(h))

SymDefine ==
    /\ Definitions(sym.tables) < MaxDefinitions
    /\ \E name \in SymbolNames :
        \E t \in 1..Current :
            sym' = [tables |-> Define(sym.tables, t, name)]
    /\ UNCHANGED NotSym

SymDefineBuiltin ==
    /\ Current = 1
    /\ sym.tables[Current].numDefinitions = 0
    /\ \E name \in SymbolNames :
        sym' = [tables |-> DefineBuiltin(sym.tables, Current,
                                         Cardinality(DOMAIN sym.tables[Current].store),
                                         name)]
    /\ UNCHANGED NotSym

SymDefineFunctionName ==
    /\ Current > 1
    /\ DOMAIN sym.tables[Current].store = {}
    /\ \E name \in SymbolNames :
        sym' = [tables |-> DefineFunctionName(sym.tables, Current, name)]
    /\ UNCHANGED NotSym

SymResolve ==
    /\ \E name \in SymbolNames :
        \E t \in 1..Current :
            sym' = [tables |-> Resolve(sym.tables, t, name).h]
    /\ UNCHANGED NotSym

NextSym ==
    \/ SymNewEnclosed \/ SymDefine \/ SymDefineBuiltin \/ SymDefineFunctionName
    \/ SymResolve

SpecSym == InitSym /\ [][NextSym]_vars

(***************************************************************************)
(* Arrays driven call by call: array literals `[1, ..., n]` are evaluated  *)
(* and values are pushed onto any Array object there is.  arr holds the    *)
(* memory m and, for the claims, the last call: op, the object a it was    *)
(* made on, the value x and the object obj it returned.                    *)
(***************************************************************************)
PushValues == {7, 8}

InitArr ==
    /\ arr = [op |-> "none", a |-> 0, x |-> NilObj, obj |-> 0,
              m |-> [backing |-> <<>>, objects |-> <<>>]]
    /\ code = [step |-> "none"]
    /\ vm = [m |-> [state |-> "none", sp |-> 0], expr |-> [kind |-> "none"]]
    /\ sym = [tables |-> <<>>]
    /\ lex = LexIdle
    /\ emitted = <<>>
    /\ envs = <<>>
    /\ last = EnvIdle
    /\ ReplIdle

NotArr == <<lexVars, envVars, replVars, vm, sym, code>>

ArrLiteral ==
    /\ Len(arr.m.objects) < MaxArrays
    /\ \E n \in 0..MaxElements :
        arr' = [op |-> "literal", a |-> 0, x |-> NilObj,
                obj |-> Len(arr.m.objects) + 1,
                m |-> evalArrayLiteral(arr.m, [i \in 1..n |-> i])]
    /\ UNCHANGED NotArr

ArrPush ==
    /\ Len(arr.m.objects) < MaxArrays
    /\ \E a \in 1..Len(arr.m.objects) : \E v \in PushValues :
        arr' = [op |-> "push", a |-> a, x |-> IntegerObj(v),
                obj |-> pushArray(arr.m, a, IntegerObj(v)).obj,
                m |-> pushArray(arr.m, a, IntegerObj(v)).m]
    /\ UNCHANGED NotArr

NextArr == ArrLiteral \/ ArrPush

SpecArr == InitArr /\ [][NextArr]_vars

(***************************************************************************)
(* Instructions encoded and decoded: an opcode of the table and operands   *)
(* that fit its widths are chosen, Make encodes them, and ReadOperands     *)
(* decodes the bytes behind the opcode.  code holds the step, the opcode,  *)
(* the operands, the instruction and what ReadOperands returned.           *)
(***************************************************************************)
\* values an operand of the width takes: both ends of the range, values on
\* either side of a byte boundary, and one with two different bytes
OperandValues(width) ==
    IF width = 2 THEN {0, 1, 255, 256, 4660, 65280, 65535}
    ELSE {0, 1, 127, 255}

\* the operand lists that fit the widths
RECURSIVE OperandLists(_)
OperandLists(widths) ==
    IF widths = <<>> THEN {<<>>}
    ELSE {<<v>> \o rest : v \in OperandValues(Head(widths)),
                          rest \in OperandLists(Tail(widths))}

InitCode ==
    /\ \E op \in definitions : \E operands \in OperandLists(OperandWidths(op)) :
        code = [step |-> "chosen", op |-> op, operands |-> operands,
                instruction |-> <<>>,
                read |-> [operands |-> <<>>, read |-> 0]]
    /\ vm = [m |-> [state |-> "none", sp |-> 0], expr |-> [kind |-> "none"]]
    /\ sym = [tables |-> <<>>]
    /\ arr = [op |-> "none"]
    /\ lex = LexIdle
    /\ emitted = <<>>
    /\ envs = <<>>
    /\ last = EnvIdle
    /\ ReplIdle

NotCode == <<lexVars, envVars, replVars, vm, sym, arr>>

CodeMake ==
    /\ code.step = "chosen"
    /\ code' = [code EXCEPT !.step = "made",
                            !.instruction = Make(code.op, code.operands)]
    /\ UNCHANGED NotCode

CodeReadOperands ==
    /\ code.step = "made"
    /\ code' = [code EXCEPT !.step = "read",
                            !.read = ReadOperands(code.op, Tail(code.instruction))]
    /\ UNCHANGED NotCode

NextCode == CodeMake \/ CodeReadOperands

SpecCode == InitCode /\ [][NextCode]_vars

(***************************************************************************)
(* Claims about the lexer (checked under SpecLex)                          *)
(***************************************************************************)

\* C4: for k >= 1 bangs directly in front of an operand that begins with a
\* letter, the first k tokens NextToken returns are BANG tokens and token
\* k + 1 is the token the operand gives on its own.
C4_BangBeforeLetterOperand ==
    \A k \in 1..MaxBangs, w \in BangOperands :
        (lex.input = Bangs(k) \o w /\ Len(emitted) >= k + 1) =>
            /\ \A i \in 1..k : emitted[i] = NewToken("BANG", <<"!">>)
            /\ emitted[k + 1] = NextToken(NewLexer(w)).tok

\* C6: a lexer created on the canonical literal text of a token kind returns
\* one token of that kind from the first NextToken call and EOF from the
\* second.
C6_CanonicalTextRoundTrip ==
    \A c \in CanonicalTexts :
        (lex.input = c.text /\ Len(emitted) >= 2) =>
            /\ emitted[1].Type = c.kind
            /\ emitted[2].Type = "EOF"

\* C24: every NextToken call that returns a token other than EOF leaves the
\* lexer further in its input than it found it.
C24_EveryTokenConsumesInput ==
    [][emitted' # emitted =>
        (emitted'[Len(emitted')].Type # "EOF" => lex'.position > lex.position)]_lexVars

(***************************************************************************)
(* Claims about environments (checked under SpecEnv)                       *)
(***************************************************************************)
\* the environments from e outward, innermost first
RECURSIVE Chain(_, _)
Chain(h, e) == IF e = 0 THEN <<>> ELSE <<e>> \o Chain(h, h[e].outer)

\* the positions in the chain of e whose environment binds name
Binders(h, e, name) ==
    {i \in 1..Len(Chain(h, e)) : name \in DOMAIN h[Chain(h, e)[i]].store}

Least(S) == CHOOSE i \in S : \A j \in S : i <= j

\* C10: Set(name, v) on an environment changes that environment's own store
\* at name only and leaves every other environment as it was; Get(name)
\* changes nothing, returns the binding of the innermost environment of the
\* chain that binds name, and reports not-found exactly when none does.
C10_SetLocalGetInnermost ==
    /\ last.op = "Set" =>
        LET old == last.before[last.env]
            new == envs[last.env]
        IN  /\ Len(envs) = Len(last.before)
            /\ \A i \in 1..Len(envs) : i # last.env => envs[i] = last.before[i]
            /\ new.outer = old.outer
            /\ DOMAIN new.store = DOMAIN old.store \cup {last.name}
            /\ new.store[last.name] = last.value
            /\ \A n \in DOMAIN old.store \ {last.name} : new.store[n] = old.store[n]
    /\ last.op = "Get" =>
        LET c == Chain(last.before, last.env)
            b == Binders(last.before, last.env, last.name)
        IN  /\ envs = last.before
            /\ last.ok <=> b # {}
            /\ b # {} => last.obj = last.before[c[Least(b)]].store[last.name]

\* a Get of a name that an inner and an outer environment of the chain bind
\* to different values
C10_Witness ==
    /\ last.op = "Get"
    /\ last.ok
    /\ LET c == Chain(envs, last.env)
           b == Binders(envs, last.env, last.name)
       IN  \E i, j \in b :
            /\ i < j
            /\ envs[c[i]].store[last.name] # envs[c[j]].store[last.name]

(***************************************************************************)
(* Claims about the parser (checked under Spec)                            *)
(***************************************************************************)
\* the first token of a source text
FirstToken(src) == NextToken(NewLexer(src)).tok

\* C1: a source text of two statements, the first optionally followed by a
\* semicolon, parses without error into a Program of exactly those two
\* statements in source order, whether or not the semicolon is there.
C1_StatementsInSourceOrder ==
    \A t \in StatementRuns :
        (pc = "parsed" /\ line = t.text) =>
            /\ perr = nilErr
            /\ Len(program.Statements) = 2
            /\ program.Statements[1].Token = FirstToken(t.first)
            /\ program.Statements[2].Token = FirstToken(t.second)

\* C2: `if (c) { 10 } else { 20 }`, its blocks ending without a semicolon,
\* parses into one if expression whose consequence is the one-statement
\* block and whose alternative is the else block, and evaluates to 10 when c
\* is truthy and to 20 otherwise.
C2_IfElseWithoutSemicolons ==
    \A t \in IfElseTexts :
        /\ (pc = "parsed" /\ line = t.text) =>
            /\ perr = nilErr
            /\ Len(program.Statements) = 1
            /\ program.Statements[1].Kind = "ExpressionStatement"
            /\ program.Statements[1].Expression.Kind = "IfExpression"
            /\ Len(program.Statements[1].Expression.Consequence.Statements) = 1
            /\ program.Statements[1].Expression.Alternative.Kind = "BlockStatement"
        /\ (pc = "evaluated" /\ line = t.text) =>
            /\ evaluated.err = nilErr
            /\ evaluated.obj.Type = "INTEGER"
            /\ evaluated.obj.Value = t.value

\* C3: the newAdder program parses into three top-level statements and
\* evaluates to the integer 5.
C3_ClosureProgramYieldsFive ==
    /\ (pc = "parsed" /\ line = ClosureText) =>
        /\ perr = nilErr
        /\ Len(program.Statements) = 3
    /\ (pc = "evaluated" /\ line = ClosureText) =>
        /\ evaluated.err = nilErr
        /\ evaluated.obj.Type = "INTEGER"
        /\ evaluated.obj.Value = 5

\* C5: for every binary operator op, `-a op b` and `!a op b` parse as one
\* infix expression with operator op whose left operand is the prefix
\* expression on a alone.
C5_PrefixAppliesToOperandAlone ==
    \A t \in PrefixTexts :
        (pc = "parsed" /\ line = t.text) =>
            /\ perr = nilErr
            /\ Len(program.Statements) = 1
            /\ program.Statements[1].Kind = "ExpressionStatement"
            /\ program.Statements[1].Expression.Kind = "InfixExpression"
            /\ program.Statements[1].Expression.Operator = t.op
            /\ program.Statements[1].Expression.Left.Kind = "PrefixExpression"
            /\ program.Statements[1].Expression.Left.Operator = t.prefix
            /\ program.Statements[1].Expression.Left.Right.Kind = "Identifier"
            /\ program.Statements[1].Expression.Right.Kind = "Identifier"

(***************************************************************************)
(* Claims about the tree walker (checked under Spec), stated on the trace  *)
(* of the last evaluation.                                                 *)
(***************************************************************************)
\* the event that statement list act was entered with
EnterEvent(act) ==
    trace[CHOOSE i \in 1..Len(trace) : trace[i].ev = "enter" /\ trace[i].act = act]

\* the statement lists around a statement of list act, up to and including
\* the nearest function body or the program
RECURSIVE Enclosing(_)
Enclosing(act) ==
    IF EnterEvent(act).boundary THEN {act}
    ELSE {act} \cup Enclosing(EnterEvent(act).parent)

\* the function body or program nearest around list act
RECURSIVE Boundary(_)
Boundary(act) ==
    IF EnterEvent(act).boundary THEN act ELSE Boundary(EnterEvent(act).parent)

\* event e is the end of a return statement that executed
ReturnExecuted(e) ==
    e.ev = "end" /\ e.stmt = "ReturnStatement" /\ e.err = nilErr

\* event e hands the result of function body or program b to its caller
Delivers(e, b) ==
    \/ e.ev = "deliver" /\ e.act = b
    \/ e.ev = "leave" /\ e.act = b /\ EnterEvent(b).parent = 0

\* C7: after a return statement has executed, no statement of a list that
\* encloses it, up to the nearest function body or the program, begins; and
\* what that function body or program then delivers is not a ReturnValue
\* wrapper.
C7_ReturnStopsEnclosingLists ==
    \A i \in 1..Len(trace) :
        ReturnExecuted(trace[i]) =>
            \A j \in (i + 1)..Len(trace) :
                /\ trace[j].ev = "begin" =>
                    trace[j].act \notin Enclosing(trace[i].act)
                /\ Delivers(trace[j], Boundary(trace[i].act)) =>
                    trace[j].obj.Type # "RETURN_VALUE"

\* event e is the end of a statement that evaluated to an Error
StmtError(e) == e.ev = "end" /\ (e.err # nilErr \/ e.obj.Type = "ERROR")

ErrorMessage(e) == IF e.err # nilErr THEN e.err ELSE e.obj.Message

\* C8: once a statement of a program or block has evaluated to an Error, no
\* later statement of that list begins, the list returns at once, its result
\* is an Error with the message of that first Error, and the environments
\* are as the failing statement left them.
C8_FirstErrorStopsList ==
    \A i \in 1..Len(trace) :
        StmtError(trace[i]) =>
            /\ \A j \in (i + 1)..Len(trace) :
                trace[j].ev = "begin" => trace[j].act # trace[i].act
            /\ i < Len(trace)
            /\ trace[i + 1].ev = "leave"
            /\ trace[i + 1].act = trace[i].act
            /\ trace[i + 1].obj.Type = "ERROR"
            /\ trace[i + 1].obj.Message = ErrorMessage(trace[i])
            /\ trace[i + 1].envs = trace[i].envs

\* a block (not a program) whose failing statement has a let statement
\* behind it in the list
C8_Witness ==
    /\ pc = "evaluated"
    /\ \E i \in 1..Len(trace) :
        /\ StmtError(trace[i])
        /\ EnterEvent(trace[i].act).parent # 0
        /\ trace[i].idx < EnterEvent(trace[i].act).n
        /\ \E a \in 1..Len(trace[i].envs) : <<"a">> \notin DOMAIN trace[i].envs[a].store

\* C9: no Array is built from an expression list that holds an Error, and
\* no function or builtin is applied to arguments that hold an Error.
C9_NoErrorAmongElementsOrArguments ==
    \A i \in 1..Len(trace) :
        /\ trace[i].ev = "array" =>
            \A k \in 1..Len(trace[i].elements) : ~isError(trace[i].elements[k])
        /\ trace[i].ev = "apply" =>
            \A k \in 1..Len(trace[i].args) : ~isError(trace[i].args[k])

(***************************************************************************)
(* Claims about operators (checked under SpecLine)                         *)
(***************************************************************************)
\* the message of a type mismatch between kinds l and r under operator op
MismatchMessage(l, op, r) == "type mismatch: " \o l \o " " \o Str(op) \o " " \o r

\* the trace holds no call with a String argument
NoObservedCall ==
    \A i \in 1..Len(trace) :
        trace[i].ev = "apply" =>
            \A k \in 1..Len(trace[i].args) : trace[i].args[k].Type # "STRING"

\* C11: `l op r` with operands of different kinds and an operator other than
\* == and != parses, evaluates without a panic, and yields an Error with the
\* message `type mismatch: L OP R`; when the left operand yields an Error,
\* the result is that Error and the right operand is not evaluated.
C11_TypeMismatch ==
    /\ \A t \in MismatchTexts :
        line = t.text =>
            /\ pc # "crashed"
            /\ pc = "parsed" => perr = nilErr
            /\ pc = "evaluated" =>
                /\ evaluated.obj = ErrorObj(MismatchMessage(t.l.kind, t.op, t.r.kind))
                /\ evaluated.err = MismatchMessage(t.l.kind, t.op, t.r.kind)
    /\ \A t \in GuardTexts :
        line = t.text =>
            /\ pc # "crashed"
            /\ pc = "parsed" => perr = nilErr
            /\ pc = "evaluated" =>
                /\ evaluated.obj = ErrorObj(t.l.message)
                /\ NoObservedCall

\* an Array on the left of << with an Integer on the right
C11_Witness ==
    /\ pc = "evaluated"
    /\ \E t \in MismatchTexts :
        /\ line = t.text
        /\ t.l.kind = "ARRAY"
        /\ t.op = <<"<", "<">>
        /\ t.r.kind = "INTEGER"
    /\ evaluated.obj.Type = "ERROR"

\* C12: `!x` evaluates to TRUE when x is FALSE or NULL and to FALSE for a
\* value of any other kind, never to an Error.
C12_BangOnEveryKind ==
    \A t \in NotTexts :
        line = t.text =>
            /\ pc # "crashed"
            /\ pc = "parsed" => perr = nilErr
            /\ pc = "evaluated" =>
                /\ evaluated.err = nilErr
                /\ evaluated.obj = NativeToBooleanObject(t.operand.falsy)

\* C13: `-x` evaluates to the negation of an Integer x and, for x of any
\* other kind KIND, to an Error with the message `unknown operator: -KIND`.
C13_MinusOnEveryKind ==
    \A t \in NegTexts :
        line = t.text =>
            /\ pc # "crashed"
            /\ pc = "parsed" => perr = nilErr
            /\ pc = "evaluated" =>
                IF t.operand.kind = "INTEGER"
                THEN evaluated.obj = IntegerObj(-5) /\ evaluated.err = nilErr
                ELSE evaluated.obj = ErrorObj("unknown operator: -" \o t.operand.kind)

\* the Integer objects of a sequence of values
Integers(vs) == [i \in 1..Len(vs) |-> IntegerObj(vs[i])]

\* C19: first, last and rest of an empty Array evaluate to the Null object;
\* of a non-empty Array they evaluate to its first element, its last
\* element, and a new Array of its elements from index 1 on.
C19_AccessorsOnArrays ==
    \A t \in AccessTexts :
        line = t.text =>
            /\ pc # "crashed"
            /\ pc = "parsed" => perr = nilErr
            /\ pc = "evaluated" =>
                /\ evaluated.err = nilErr
                /\ IF t.a.elems = <<>> THEN evaluated.obj = NULL
                   ELSE IF t.fn = "first"
                   THEN evaluated.obj = IntegerObj(Head(t.a.elems))
                   ELSE IF t.fn = "last"
                   THEN evaluated.obj = IntegerObj(t.a.elems[Len(t.a.elems)])
                   ELSE /\ evaluated.obj.Type = "ARRAY"
                        /\ evaluated.obj.Elements = Integers(Tail(t.a.elems))
                        /\ evaluated.obj.Addr = nextAddr - 1

\* the token of a binary operator
OperatorToken(op) ==
    NewToken(CASE op = <<"=", "=">> -> "EQ"
               [] op = <<"!", "=">> -> "NEQ"
               [] op = <<"<">> -> "LANG"
               [] op = <<">">> -> "RANG"
               [] op = <<"+">> -> "PLUS"
               [] op = <<"-">> -> "MINUS"
               [] op = <<"*">> -> "ASTERISK"
               [] op = <<"/">> -> "SLASH"
               [] op = <<"%">> -> "PERCENT"
               [] op = <<"|">> -> "PIPE"
               [] op = <<"&">> -> "AMPERSAND"
               [] op = <<"^">> -> "CARET"
               [] op = <<"<", "<">> -> "SHOVL"
               [] op = <<">", ">">> -> "SHOVR",
             op)

Operand(name) == Identifier(NewToken("IDENT", <<name>>))

Binary(left, op, right) == InfixExpression(OperatorToken(op), left, right)

\* the precedence the spec gives a binary operator
Precedence(op) ==
    CASE op \in {<<"=", "=">>, <<"!", "=">>} -> 1
      [] op \in {<<"<">>, <<">">>} -> 2
      [] op \in {<<"+">>, <<"-">>} -> 3
      [] op \in {<<"*">>, <<"/">>, <<"%">>} -> 4
      [] OTHER -> 5

\* C20: `a op1 b op2 c` parses as ((a op1 b) op2 c) when the precedence of
\* op2 is at most that of op1 and as (a op1 (b op2 c)) when it is strictly
\* greater; a call or an index behind b binds to b alone; and the expression
\* ends before a `;`.
C20_PrecedenceDecidesGrouping ==
    /\ \A t \in ChainTexts :
        (line = t.text /\ pc = "parsed") =>
            /\ perr = nilErr
            /\ Len(program.Statements) = 1
            /\ program.Statements[1].Expression =
                 IF Precedence(t.op2) <= Precedence(t.op1)
                 THEN Binary(Binary(Operand("a"), t.op1, Operand("b")),
                             t.op2, Operand("c"))
                 ELSE Binary(Operand("a"), t.op1,
                             Binary(Operand("b"), t.op2, Operand("c")))
    /\ \A t \in PostfixTexts :
        (line = t.text /\ pc = "parsed") =>
            /\ perr = nilErr
            /\ Len(program.Statements) = 1
            /\ program.Statements[1].Expression =
                 Binary(Operand("a"), t.op1,
                        IF t.open = "("
                        THEN CallExpression(NewToken("LPAREN", <<"(">>),
                                            Operand("b"), <<Operand("c")>>)
                        ELSE IndexExpression(NewToken("LBRACKET", <<"[">>),
                                             Operand("b"), Operand("c")))
    /\ \A t \in StopTexts :
        (line = t.text /\ pc = "parsed") =>
            /\ perr = nilErr
            /\ Len(program.Statements) = 2
            /\ program.Statements[1].Expression =
                 Binary(Operand("a"), t.op1, Operand("b"))
            /\ program.Statements[2].Expression = Operand("c")

\* `a == b != c` has been parsed with `a == b` as the left operand of `!=`
C20_Witness ==
    /\ line = <<"a", " ", "=", "=", " ", "b", " ", "!", "=", " ", "c">>
    /\ pc = "parsed"
    /\ program.Statements[1].Expression.Left =
         Binary(Operand("a"), <<"=", "=">>, Operand("b"))

\* C21: a call of a user-defined function with any number of arguments, the
\* number of its parameters or not, does not abort evaluation and reports no
\* error: the body is evaluated and its value is the call's.
C21_AnyNumberOfArguments ==
    \A t \in ArityTexts :
        line = t.text =>
            /\ pc # "crashed"
            /\ pc = "parsed" => perr = nilErr
            /\ pc = "evaluated" =>
                /\ evaluated.err = nilErr
                /\ evaluated.obj = IntegerObj(7)

\* the base-ten value of a digit run
RECURSIVE BaseTen(_)
BaseTen(ds) ==
    IF ds = <<>> THEN 0
    ELSE BaseTen(SubSeq(ds, 1, Len(ds) - 1)) * 10 + DigitValue(ds[Len(ds)])

\* C22: a digit run parses to the IntegerLiteral of its base-ten value,
\* leading zeros or not, and to no ParseError.
C22_DigitRunsAreBaseTen ==
    \A ds \in DigitRuns :
        (line = ds /\ pc = "parsed") =>
            /\ perr = nilErr
            /\ Len(program.Statements) = 1
            /\ program.Statements[1].Expression =
                 IntegerLiteral(NewToken("INT", ds), BaseTen(ds))

\* C25: whenever Eval returns for a program, it returns an error or an
\* Object, so that the REPL's Inspect has a value to work on; the empty
\* line, an if expression with an empty block and a call of a function with
\* an empty body are such programs.
C25_EvalReturnsErrorOrObject ==
    /\ pc = "evaluated" => (evaluated.err # nilErr \/ ~IsNil(evaluated.obj))
    /\ line \in EmptyTexts =>
        /\ pc # "crashed"
        /\ pc = "parsed" => perr = nilErr

\* C26: an Integer divided by zero or taken modulo zero, and an Integer
\* shifted by a negative count, evaluates to an Error object; the
\* interpreter does not abort.
C26_ZeroDivisorGivesError ==
    line \in ZeroTexts =>
        /\ pc # "crashed"
        /\ pc = "parsed" => perr = nilErr
        /\ pc = "evaluated" => evaluated.obj.Type = "ERROR"

\* C27: a let statement whose right-hand side evaluates to an Error leaves
\* the environment as it was: the name stays unbound, or keeps the value it
\* had.
C27_LetOfErrorBindsNothing ==
    \A t \in LetErrorTexts :
        line = t.text =>
            /\ pc # "crashed"
            /\ pc = "parsed" => perr = nilErr
            /\ pc = "evaluated" =>
                /\ evaluated.obj.Type = "ERROR"
                /\ IF t.bound
                   THEN /\ <<"a">> \in DOMAIN envs[1].store
                        /\ envs[1].store[<<"a">>] = IntegerObj(5)
                   ELSE <<"a">> \notin DOMAIN envs[1].store

(***************************************************************************)
(* Claims about the VM (checked under SpecVM)                              *)
(***************************************************************************)
\* the operator of the source language an opcode is compiled from
OperatorText(op) ==
    CASE op = "OpAdd" -> <<"+">>
      [] op = "OpSub" -> <<"-">>
      [] op = "OpMul" -> <<"*">>
      [] op = "OpDiv" -> <<"/">>
      [] op = "OpMod" -> <<"%">>
      [] op = "OpEqual" -> <<"=", "=">>
      [] op = "OpNotEqual" -> <<"!", "=">>
      [] op = "OpGreaterThan" -> <<">">>

\* the value the tree walker has for a VM operand: the same constant, or the
\* Boolean of the literal
WalkerOperand(o) ==
    CASE o.kind = "OpConstant" -> VMPool[o.index + 1]
      [] o.kind = "OpTrue" -> TRUE_OBJ
      [] o.kind = "OpFalse" -> FALSE_OBJ

\* the tree walker's infix rule on the operands of the VM's program
WalkerResult ==
    evalInfix(OperatorText(vm.expr.op), WalkerOperand(vm.expr.l),
              WalkerOperand(vm.expr.r),
              [envs |-> <<>>, next |-> 3, trace |-> <<>>, stack |-> <<>>,
               acts |-> 0, body |-> FALSE])

\* two objects with the same Inspect() output
SameInspect(a, b) ==
    /\ a.Type = b.Type
    /\ a.Type \in {"INTEGER", "BOOLEAN", "STRING"}
    /\ a.Value = b.Value

\* C14: when the VM has run `l op r`, it has panicked exactly when the tree
\* walker's infix rule panics, Run has returned an error exactly when that
\* rule yields an Error, and otherwise the value the VM computed prints as
\* the value of that rule.
C14_VMMatchesTreeWalker ==
    (vm.expr.kind = "binary" /\ vm.m.state \in {"done", "failed", "panicked"}) =>
        /\ vm.m.state = "panicked" <=> WalkerResult.panic
        /\ vm.m.state = "failed" <=>
            /\ ~WalkerResult.panic
            /\ WalkerResult.err # nilErr \/ isError(WalkerResult.obj)
        /\ vm.m.state = "done" =>
            SameInspect(LastPoppedStackElem(vm.m), WalkerResult.obj)

\* the loop of Run is at an instruction that pushes
AtPush == InLoop /\ Fetch \in {"OpConstant", "OpTrue", "OpFalse"}

\* the object that instruction pushes
Pushed ==
    CASE Fetch = "OpConstant" ->
            vm.m.constants[ReadUint16(vm.m.instructions, vm.m.ip + 1) + 1]
      [] Fetch = "OpTrue" -> True
      [] Fetch = "OpFalse" -> False

\* C15: sp never exceeds STACKSIZE; a push at sp = STACKSIZE makes Run return
\* the error `stack overflow` and leaves sp and the stack as they were; any
\* other push stores the object at stack[sp] and adds one to sp.
C15_StackNeverOverflows ==
    /\ [](vm.m.sp <= STACKSIZE)
    /\ [][AtPush =>
            IF vm.m.sp = STACKSIZE
            THEN /\ vm'.m.state = "failed"
                 /\ vm'.m.err = "stack overflow"
                 /\ vm'.m.sp = vm.m.sp
                 /\ vm'.m.stack = vm.m.stack
            ELSE /\ vm'.m.state = "running"
                 /\ vm'.m.sp = vm.m.sp + 1
                 /\ vm'.m.stack = [vm.m.stack EXCEPT ![vm.m.sp] = Pushed]]_vm

\* Run has returned the overflow error with the stack full
C15_Witness ==
    /\ vm.m.state = "failed"
    /\ vm.m.err = "stack overflow"
    /\ vm.m.sp = STACKSIZE
    /\ \A i \in 0..(STACKSIZE - 1) : ~IsNil(vm.m.stack[i])

\* C17: every Boolean on the VM's stack is one of the two shared objects
\* TRUE and FALSE the tree walker's Booleans are.
C17_BooleansAreShared ==
    \A i \in 0..(vm.m.sp - 1) :
        vm.m.stack[i].Type = "BOOLEAN" =>
            \/ SameObject(vm.m.stack[i], TRUE_OBJ)
            \/ SameObject(vm.m.stack[i], FALSE_OBJ)

(***************************************************************************)
(* Claims about symbol tables (checked under SpecSym)                      *)
(***************************************************************************)

\* the tables from s outward, s first
RECURSIVE Scopes(_, _)
Scopes(h, s) == IF s = 0 THEN <<>> ELSE <<s>> \o Scopes(h, h[s].Outer)

\* the positions of Scopes(h, s) whose table records name
Holders(h, s, name) ==
    {i \in 1..Len(Scopes(h, s)) : name \in DOMAIN h[Scopes(h, s)[i]].store}

Nearest(h, s, name) == Least(Holders(h, s, name))

\* the symbol the nearest enclosing table records for name
Hit(h, s, name) == h[Scopes(h, s)[Nearest(h, s, name)]].store[name]

\* the symbol the table at position j of Scopes(h, s) sees for name once
\* the name has been lifted up to there
Seen(h, s, name, j) ==
    IF j = Nearest(h, s, name) THEN Hit(h, s, name)
    ELSE Symbol(name, FREESCOPE, Len(h[Scopes(h, s)[j]].FreeSymbols))

\* the table at position j after the lifting
LiftedTable(h, s, name, j) ==
    [Outer |-> h[Scopes(h, s)[j]].Outer,
     numDefinitions |-> h[Scopes(h, s)[j]].numDefinitions,
     FreeSymbols |-> Append(h[Scopes(h, s)[j]].FreeSymbols,
                            Seen(h, s, name, j + 1)),
     store |-> [n \in DOMAIN h[Scopes(h, s)[j]].store \cup {name} |->
                   IF n = name THEN Seen(h, s, name, j)
                   ELSE h[Scopes(h, s)[j]].store[n]]]

\* the tables after name has been lifted into every table between s and
\* the one that records it
Lifted(h, s, name) ==
    [t \in 1..Len(h) |->
        IF \E j \in 1..(Nearest(h, s, name) - 1) : Scopes(h, s)[j] = t
        THEN LiftedTable(h, s, name,
                 CHOOSE j \in 1..(Nearest(h, s, name) - 1) : Scopes(h, s)[j] = t)
        ELSE h[t]]

\* C16: Resolve of a name that a table does not record itself but an
\* enclosing table does returns a GLOBAL or BUILTIN hit unchanged and
\* changes no table; any other hit is appended, as the immediately enclosing
\* table sees it, to FreeSymbols of every table between the resolving one and
\* the recording one, each of which stores and the innermost of which
\* returns a FREE symbol whose Index is the position of the appended entry.
C16_ResolveLiftsFreeSymbols ==
    \A s \in 1..Len(sym.tables) : \A name \in SymbolNames :
        (Holders(sym.tables, s, name) # {} /\ 1 \notin Holders(sym.tables, s, name))
        => Resolve(sym.tables, s, name) =
             IF Hit(sym.tables, s, name).Scope \in {GLOBALSCOPE, BUILTINSCOPE}
             THEN [obj |-> Hit(sym.tables, s, name), ok |-> TRUE,
                   h |-> sym.tables]
             ELSE [obj |-> Seen(sym.tables, s, name, 1), ok |-> TRUE,
                   h |-> Lifted(sym.tables, s, name)]

\* a Resolve has lifted a LOCAL or FUNCTION symbol through an intermediate
\* table: the innermost table's FREE symbol points at a FREE symbol of the
\* table around it, which points at the symbol of the recording table; and
\* only the outermost table records the other name
C16_Witness ==
    \E s \in 1..Len(sym.tables) : \E name \in SymbolNames :
        /\ name \in DOMAIN sym.tables[s].store
        /\ sym.tables[s].store[name].Scope = FREESCOPE
        /\ sym.tables[s].FreeSymbols[sym.tables[s].store[name].Index + 1]
             \in {Symbol(name, FREESCOPE, i) : i \in 0..MaxTables}
        /\ sym.tables[s].Outer # 0
        /\ sym.tables[sym.tables[s].Outer].FreeSymbols[
               sym.tables[s].FreeSymbols[sym.tables[s].store[name].Index + 1].Index + 1].Scope
             \in {LOCALSCOPE, FUNCTIONSCOPE}
        /\ \E other \in SymbolNames \ {name} :
               /\ other \in DOMAIN sym.tables[1].store
               /\ \A i \in 1..Len(Scopes(sym.tables, s)) - 1 :
                      other \notin DOMAIN sym.tables[Scopes(sym.tables, s)[i]].store

(***************************************************************************)
(* Claims about arrays (checked under SpecArr)                             *)
(***************************************************************************)

\* the elements of the Array object at address a
ElementsOf(m, a) == SliceElements(m, m.objects[a].Elements)

\* C18: push(a, x) returns a new Array whose elements are a's elements in
\* order followed by x, and after the call a, like every Array there was,
\* has the elements it had before.
C18_PushLeavesArraysAlone ==
    [][arr'.op = "push" =>
        /\ arr'.obj \notin 1..Len(arr.m.objects)
        /\ ElementsOf(arr'.m, arr'.obj) = Append(ElementsOf(arr.m, arr'.a), arr'.x)
        /\ \A o \in 1..Len(arr.m.objects) :
               ElementsOf(arr'.m, o) = ElementsOf(arr.m, o)]_arr

\* 7 and then 8 have been pushed onto the literal [1, 2, 3], whose backing
\* array has room for a fourth element
C18_Witness ==
    /\ arr.op = "push"
    /\ Len(arr.m.objects) = 3
    /\ arr.a = 1
    /\ arr.m.objects[1].Elements.cap > arr.m.objects[1].Elements.len
    /\ ElementsOf(arr.m, 1) = <<IntegerObj(1), IntegerObj(2), IntegerObj(3)>>
    /\ ElementsOf(arr.m, 2) = Append(ElementsOf(arr.m, 1), IntegerObj(7))
    /\ ElementsOf(arr.m, 3) = Append(ElementsOf(arr.m, 1), IntegerObj(8))

(***************************************************************************)
(* Claims about instructions (checked under SpecCode)                      *)
(***************************************************************************)

\* the bytes of the operands, each big-endian in its width
RECURSIVE BigEndian(_, _)
BigEndian(widths, operands) ==
    IF widths = <<>> THEN <<>>
    ELSE (IF Head(widths) = 2
          THEN <<Head(operands) \div 256, Head(operands) % 256>>
          ELSE <<Head(operands)>>)
         \o BigEndian(Tail(widths), Tail(operands))

\* C23: Make yields the opcode followed by the operands big-endian in their
\* widths, and ReadOperands on the bytes behind the opcode returns the
\* operands and the number of bytes they take.
C23_MakeThenReadOperands ==
    /\ code.step \in {"made", "read"} =>
        code.instruction =
            <<code.op>> \o BigEndian(OperandWidths(code.op), code.operands)
    /\ code.step = "read" =>
        /\ code.read.operands = code.operands
        /\ code.read.read = Len(code.instruction) - 1

\* OpConstant 4660 has been encoded as the opcode, 18 and 52 and decoded
C23_Witness ==
    /\ code.step = "read"
    /\ code.op = "OpConstant"
    /\ code.operands = <<4660>>
    /\ code.instruction = <<"OpConstant", 18, 52>>
    /\ code.read = [operands |-> <<4660>>, read |-> 2]

\* whether a second Resolve of the name in the table s, after a first one
\* returned r, returns the same symbol and changes nothing
SameAgain(s, name, r) ==
    Resolve(r.h, s, name) = [obj |-> r.obj, ok |-> TRUE, h |-> r.h]

\* C28: in every table FreeSymbols holds a name at most once, and a FREE
\* symbol of the store has the Index of the entry of FreeSymbols with its
\* name; a name resolved twice in one table gives the same symbol twice and
\* FreeSymbols grows the first time at most; a Resolve that does not find the
\* name changes no table.
C28_TablesStayConsistent ==
    \A s \in 1..Len(sym.tables) :
        /\ \A i, j \in 1..Len(sym.tables[s].FreeSymbols) :
               sym.tables[s].FreeSymbols[i].Name = sym.tables[s].FreeSymbols[j].Name
               => i = j
        /\ \A name \in DOMAIN sym.tables[s].store :
               sym.tables[s].store[name].Scope = FREESCOPE =>
                   /\ sym.tables[s].store[name].Index + 1
                        \in 1..Len(sym.tables[s].FreeSymbols)
                   /\ sym.tables[s].FreeSymbols[
                          sym.tables[s].store[name].Index + 1].Name = name
        /\ \A name \in SymbolNames :
               IF Resolve(sym.tables, s, name).ok
               THEN SameAgain(s, name, Resolve(sym.tables, s, name))
               ELSE Resolve(sym.tables, s, name).h = sym.tables

\* a table holds two FREE symbols, the second with Index 1, and the
\* outermost table cannot resolve either name
C28_Witness ==
    \E s \in 1..Len(sym.tables) :
        /\ Len(sym.tables[s].FreeSymbols) = 2
        /\ \A name \in SymbolNames :
               /\ name \in DOMAIN sym.tables[s].store
               /\ sym.tables[s].store[name].Scope = FREESCOPE
               /\ ~Resolve(sym.tables, 1, name).ok
        /\ \E name \in SymbolNames : sym.tables[s].store[name].Index = 1

====
